---- MODULE Spec2Model ----
(***************************************************************************)
(* The bytecode compiler (package compiler) and the stack virtual machine  *)
(* (package vm) of the scripting language, as one state machine: a source  *)
(* program is compiled into a tree of compilation scopes and the dispatch  *)
(* loop of VM.Run then executes one opcode per step.                       *)
(*                                                                         *)
(* Packages op, symbol, object and the vm types Frame and Stack are used   *)
(* by the two files but are not part of them; they are modelled from the   *)
(* specification document.  In particular the numbers behind the opcode    *)
(* names are not known, so an instruction word keeps the name of the       *)
(* opcode it was emitted for and the execution stops in the status         *)
(* "desync" when the dispatch loop would need the number of an opcode      *)
(* word as data, or an operand word as opcode.                             *)
(*                                                                         *)
(* input.origin tells where the scope the VM runs comes from:              *)
(*   "emit"   Run(code) with the compiler as it is written: MakeInstruction*)
(*            appends one word per operand;                                *)
(*   "table"  the same compilation with every operand laid out in the      *)
(*            number of words of the operand table, which is what fetch    *)
(*            and fetch2 of the VM read;                                   *)
(*   "raw"    vm.New(main).Run() on a scope built by the caller;           *)
(*   "repl"   a compiler made over a scope that exists, and a sequence of  *)
(*            Compile calls on it.                                         *)
(*                                                                         *)
(* Modelled are the statements and opcodes of integers, booleans, nil,     *)
(* variables, assignments, if, for, break, continue, functions, closures,  *)
(* calls and return, and the name of a builtin; floats, strings,           *)
(* containers, attributes, prefix operators and the bodies of builtins are *)
(* left out.  The compiler is made with one builtin, len, in its Builtins  *)
(* option.  The capacity of the operand stack is not modelled.             *)
(***************************************************************************)
EXTENDS Integers, Sequences, FiniteSets, TLC

VARIABLES
    input,         \* what is run: [origin, id]
    status,        \* "init", "running", the way Run ended
    scopes,        \* the compilation scopes; scopes[1] is vm.main
    ip,            \* vm.ip
    stack,         \* vm.stack
    frames,        \* vm.frames[0 .. framesIndex]
    framesIndex,   \* vm.framesIndex
    currentScope,  \* vm.currentScope
    globals,       \* vm.globals
    heap,          \* the locals vectors of the frames, by allocation
    symbolTables,  \* the symbol tables the scopes refer to
    last,          \* the instruction the dispatch loop executed last
    compiler       \* the Compiler: current, startPos, and the Compile calls made

vars == <<input, status, scopes, ip, stack, frames, framesIndex,
          currentScope, globals, heap, symbolTables, last, compiler>>

-----------------------------------------------------------------------------
(* Program constants *)

MaxFrameDepth == 1024
MaxArgs == 255
Placeholder == 9999
\* the number of constants that a uint16 can index
MaxConstants == 65536

(* Bounds of the model *)

MaxFact == 4
MaxCalls == 3

U8(x) == x % 256
U16(x) == x % 65536

Max(a, b) == IF a >= b THEN a ELSE b

\* a | b, a & b and a ^ b on unsigned numbers of the given number of bits
RECURSIVE Bitwise(_, _, _, _)
Bitwise(kind, a, b, bits) ==
    IF bits = 0 THEN 0
    ELSE LET x == a % 2
             y == b % 2
             z == CASE kind = "Or" -> IF x + y > 0 THEN 1 ELSE 0
                    [] kind = "And" -> x * y
                    [] OTHER -> (x + y) % 2
         IN  z + 2 * Bitwise(kind, a \div 2, b \div 2, bits - 1)

-----------------------------------------------------------------------------
(* object: values *)

Val(t, n, xs) == [t |-> t, n |-> n, xs |-> xs]
GoNil == Val("<nil>", 0, <<>>)          \* a nil interface value
Panicked == Val("panic", 0, <<>>)       \* no value: the host panics
Nil == Val("nil", 0, <<>>)              \* object.Nil
True == Val("bool", 1, <<>>)
False == Val("bool", 0, <<>>)
NewBool(b) == IF b THEN True ELSE False
NewInt(n) == Val("int", n, <<>>)
NewCompiledFunction(scope) == Val("fn", scope, <<>>)
NewClosure(fn, free) == Val("fn", fn.n, free)
NewCell(arr, idx) == Val("cell", arr, <<idx>>)

IsTruthy(v) ==
    CASE v.t = "nil" -> FALSE
      [] v.t = "bool" -> v.n = 1
      [] v.t = "int" -> v.n # 0
      [] OTHER -> TRUE

Equals(a, b) ==
    NewBool(a.t = b.t /\ a.n = b.n /\ Len(a.xs) = Len(b.xs)
            /\ \A i \in 1..Len(a.xs) : a.xs[i] = b.xs[i])

-----------------------------------------------------------------------------
(* op: instruction words and the operand table *)

OpWord(o) == [k |-> "op", o |-> o, n |-> 0]
ArgWord(n) == [k |-> "arg", o |-> "", n |-> n]

OperandWidths(opcode) ==
    CASE opcode \in {"LoadConst", "LoadFast", "LoadGlobal", "LoadFree",
                     "LoadBuiltin", "LoadAttr", "StoreGlobal", "StoreFree",
                     "PopJumpForwardIfTrue", "PopJumpForwardIfFalse",
                     "PopJumpBackwardIfTrue", "PopJumpBackwardIfFalse",
                     "JumpForward", "JumpBackward",
                     "BuildList", "BuildMap", "BuildSet"} -> <<2>>
      [] opcode \in {"StoreFast", "CompareOp", "BinaryOp", "Call",
                     "ReturnValue", "ContainsOp"} -> <<1>>
      [] opcode = "LoadClosure" -> <<2, 2>>
      [] opcode = "MakeCell" -> <<2, 1>>
      [] OTHER -> <<>>

-----------------------------------------------------------------------------
(* ast: nodes *)

Node(type, s, n, ps, kids) ==
    [type |-> type, s |-> s, n |-> n, ps |-> ps, kids |-> kids]
AInt(n) == Node("Int", "", n, <<>>, <<>>)
ANil == Node("Nil", "", 0, <<>>, <<>>)
ABool(b) == Node("Bool", "", IF b THEN 1 ELSE 0, <<>>, <<>>)
AIdent(x) == Node("Ident", x, 0, <<>>, <<>>)
AInfix(l, o, r) == Node("Infix", o, 0, <<>>, <<l, r>>)
AVar(x, e) == Node("Var", x, 0, <<>>, <<e>>)
AAssign(x, o, e) == Node("Assign", x, 0, <<o>>, <<e>>)
APostfix(x, o) == Node("Postfix", x, 0, <<o>>, <<>>)
ABlock(stmts) == Node("Block", "", 0, <<>>, stmts)
AProgram(stmts) == Node("Program", "", 0, <<>>, stmts)
AIf(c, a) == Node("If", "", 0, <<>>, <<c, a>>)
AIfElse(c, a, b) == Node("If", "", 0, <<>>, <<c, a, b>>)
AFor(body) == Node("For", "", 0, <<>>, <<body>>)
AControl(lit, e) == Node("Control", lit, 0, <<>>, <<e>>)
AReturn(e) == AControl("return", e)
ABreak == Node("Control", "break", 0, <<>>, <<>>)
AContinue == Node("Control", "continue", 0, <<>>, <<>>)
ACall(f, args) == Node("Call", "", 0, <<>>, <<f>> \o args)
AFunc(name, params, stmts) == Node("Func", name, 1, params, <<ABlock(stmts)>>)
AFuncLit(params, stmts) == Node("Func", "", 0, params, <<ABlock(stmts)>>)

-----------------------------------------------------------------------------
(* symbol: the tree of symbol tables *)

NewTable == [parent |-> 0, kind |-> "root", names |-> <<>>, free |-> <<>>,
             count |-> 0]

RECURSIVE FuncTable(_, _)
FuncTable(tables, t) ==
    IF tables[t].kind = "block" THEN FuncTable(tables, tables[t].parent) ELSE t

NewChild(tables, t) ==
    Append(tables, [parent |-> t, kind |-> "func", names |-> <<>>,
                    free |-> <<>>, count |-> 0])

NewBlock(tables, t) ==
    Append(tables, [parent |-> t, kind |-> "block", names |-> <<>>,
                    free |-> <<>>, count |-> 0])

Find(entries, name) ==
    LET hits == {i \in 1..Len(entries) : entries[i].Name = name}
    IN  IF hits = {} THEN 0 ELSE CHOOSE i \in hits : TRUE

InsertVariable(tables, t, name) ==
    IF Find(tables[t].names, name) # 0
    THEN [err |-> TRUE, tables |-> tables, Index |-> 0]
    ELSE LET f == FuncTable(tables, t)
             idx == tables[f].count
             t1 == [tables EXCEPT ![f].count = idx + 1]
         IN  [err |-> FALSE,
              tables |-> [t1 EXCEPT ![t].names =
                              Append(@, [Name |-> name, Index |-> idx])],
              Index |-> U16(idx)]

\* the declaration of name in the function that owns table t, through its blocks
RECURSIVE FindInFunction(_, _, _)
FindInFunction(tables, t, name) ==
    LET i == Find(tables[t].names, name)
    IN  IF i # 0 THEN tables[t].names[i].Index
        ELSE IF tables[t].kind = "block"
        THEN FindInFunction(tables, tables[t].parent, name)
        ELSE -1

RECURSIVE Resolve(_, _, _, _)
Resolve(tables, t, name, depth) ==
    LET f == FuncTable(tables, t)
        own == FindInFunction(tables, t, name)
        fr == Find(tables[f].free, name)
    IN  IF own >= 0
        THEN [found |-> TRUE,
              Scope |-> IF tables[f].kind = "root" THEN "Global"
                        ELSE IF depth = 0 THEN "Local" ELSE "Free",
              Index |-> own, Depth |-> depth, fresh |-> depth > 0]
        ELSE IF depth = 0 /\ fr # 0
        THEN [found |-> TRUE, Scope |-> "Free", Index |-> fr - 1,
              Depth |-> tables[f].free[fr].Depth, fresh |-> FALSE]
        ELSE IF tables[f].parent = 0
        THEN [found |-> FALSE, Scope |-> "", Index |-> 0, Depth |-> 0,
              fresh |-> FALSE]
        ELSE Resolve(tables, tables[f].parent, name, depth + 1)

\* the names that compiler.New has inserted into the main table with
\* InsertBuiltin, in the order of their indices
Builtins == <<"len">>

\* the index of a builtin, or -1
FindBuiltin(name) ==
    IF \E i \in 1..Len(Builtins) : Builtins[i] = name
    THEN (CHOOSE i \in 1..Len(Builtins) : Builtins[i] = name) - 1
    ELSE -1

\* Lookup returns the resolution and the tables, in which a hit in an enclosing
\* function is recorded on the free list of the function that looked it up; a
\* name that no table declares resolves to the builtin of that name
Lookup(tables, t, name) ==
    LET r == Resolve(tables, t, name, 0)
        f == FuncTable(tables, t)
    IN  IF ~r.found /\ FindBuiltin(name) >= 0
        THEN [found |-> TRUE, Scope |-> "Builtin", Index |-> FindBuiltin(name),
              tables |-> tables]
        ELSE IF r.found /\ r.Scope = "Free" /\ r.fresh
        THEN [found |-> TRUE, Scope |-> "Free",
              Index |-> U16(Len(tables[f].free)),
              tables |-> [tables EXCEPT ![f].free =
                  Append(@, [Name |-> name, Index |-> r.Index,
                             Depth |-> r.Depth])]]
        ELSE [found |-> r.found, Scope |-> r.Scope, Index |-> r.Index,
              tables |-> tables]

Free(tables, t) == tables[t].free
Size(tables, t) == tables[t].count
SymbolMap(tables, t) == tables[t].names

-----------------------------------------------------------------------------
(* compiler: scopes, emission *)

NewScope(name, isNamed, parent, symbols) ==
    [Name |-> name, IsNamed |-> isNamed, Parent |-> parent,
     Symbols |-> symbols, Instructions |-> <<>>, Constants |-> <<>>,
     Names |-> <<>>, Children |-> <<>>, Loops |-> <<>>,
     \* history, not fields of the code: the loops that were closed, the
     \* positions changeOperand has written, for each MakeCell emitted the
     \* scope of the function that declares the captured variable, and the
     \* positions of each if that was compiled
     LoopLog |-> <<>>, Patched |-> <<>>, CellLog |-> <<>>, IfLog |-> <<>>]

\* compiler.New with no Scope option: a fresh main scope, with the builtins
\* of the Builtins option in its symbol table
New(layout) ==
    [scopes |-> <<NewScope("main", FALSE, 0, 1)>>, tables |-> <<NewTable>>,
     current |-> 1, err |-> "", layout |-> layout]

Fail(c, msg) == [c EXCEPT !.err = msg]

\* op.Code(o): one instruction word for an operand
Code(o) == <<ArgWord(U16(o))>>

\* an operand laid out in the number of words the operand table gives it
TableOperand(width, o) ==
    IF width = 2 THEN <<ArgWord(U8(U16(o))), ArgWord(U16(o) \div 256)>>
    ELSE <<ArgWord(U8(o))>>

RECURSIVE OperandWords(_, _, _, _)
OperandWords(layout, widths, operands, i) ==
    IF i > Len(operands) THEN <<>>
    ELSE (IF layout = "table" THEN TableOperand(widths[i], operands[i])
          ELSE Code(operands[i]))
         \o OperandWords(layout, widths, operands, i + 1)

MakeInstruction(layout, opcode, operands) ==
    <<OpWord(opcode)>>
    \o OperandWords(layout, OperandWidths(opcode), operands, 1)

CurrentInstructions(c) == c.scopes[c.current].Instructions

emit(c, opcode, operands) ==
    [c EXCEPT !.scopes[c.current].Instructions =
                  @ \o MakeInstruction(c.layout, opcode, operands)]

\* the position emit returns for the instruction it is about to append
emitPos(c) == U16(Len(CurrentInstructions(c)))

\* constant appends and returns the index; the constant added is a plain value
constant(c, obj) ==
    [c EXCEPT !.scopes[c.current].Constants = Append(@, obj)]

constantIndex(c) == U16(Len(c.scopes[c.current].Constants))

calculateDelta(c, pos) == U16(Len(CurrentInstructions(c)) - pos)

changeOperand(c, pos, operand) ==
    LET ins == CurrentInstructions(c)
        w == IF c.layout = "table" THEN TableOperand(2, operand)
             ELSE Code(operand)
    IN  IF pos + 1 + Len(w) > Len(ins)
        THEN Fail(c, "panic: index out of range")
        ELSE [c EXCEPT !.scopes[c.current].Instructions =
                 [j \in 1..Len(ins) |->
                     IF j > pos + 1 /\ j <= pos + 1 + Len(w)
                     THEN w[j - pos - 1] ELSE ins[j]],
                       !.scopes[c.current].Patched = Append(@, pos)]

currentLoop(c) == Len(c.scopes[c.current].Loops)

startLoop(c) ==
    [c EXCEPT !.scopes[c.current].Loops =
                  Append(@, [ContinuePos |-> <<>>, BreakPos |-> <<>>])]

endLoop(c) ==
    IF Len(c.scopes[c.current].Loops) = 0
    THEN Fail(c, "panic: slice bounds out of range")
    ELSE [c EXCEPT !.scopes[c.current].Loops = SubSeq(@, 1, Len(@) - 1)]

StoreFor(scopeClass) ==
    CASE scopeClass = "Global" -> "StoreGlobal"
      [] scopeClass = "Local" -> "StoreFast"
      [] scopeClass = "Free" -> "StoreFree"
      [] OTHER -> "LoadBuiltin"

\* a global symbol loaded as if it were a local
LoadForLocal(scopeClass) ==
    CASE scopeClass = "Global" -> "LoadFast"
      [] scopeClass = "Local" -> "LoadFast"
      [] scopeClass = "Free" -> "LoadFree"
      [] OTHER -> "LoadBuiltin"

LoadFor(scopeClass) ==
    CASE scopeClass = "Global" -> "LoadGlobal"
      [] scopeClass = "Local" -> "LoadFast"
      [] scopeClass = "Free" -> "LoadFree"
      [] OTHER -> "LoadBuiltin"

\* op.BinaryOpType and op.CompareOpType: the kinds, numbered in the order of
\* their declaration
BinaryOps == <<"Add", "Subtract", "Multiply", "Divide", "Modulo", "And", "Or",
               "Xor", "Power", "LShift", "RShift">>
CompareOps == <<"Equal", "NotEqual", "LessThan", "LessThanOrEqual",
                "GreaterThan", "GreaterThanOrEqual">>
KindNumber(kinds, name) == (CHOOSE i \in 1..Len(kinds) : kinds[i] = name) - 1
KindName(kinds, n) == IF n < Len(kinds) THEN kinds[n + 1] ELSE "unknown"

-----------------------------------------------------------------------------
(* compiler: the tree walk *)

\* the value v under the name the body gives it
Bind(v, Body(_)) == Body(v)

\* if err := ...; err != nil { return err }, and the rest of the function
Then(c1, Rest(_)) == IF c1.err # "" THEN c1 ELSE Rest(c1)

RECURSIVE compile(_, _)
RECURSIVE compileStatements(_, _, _)
RECURSIVE compileFunc(_, _)

compileStatements(c, stmts, i) ==
    IF i > Len(stmts) THEN c
    ELSE Then(compile(c, stmts[i]),
              LAMBDA c1 : compileStatements(c1, stmts, i + 1))

\* the deferred c.current.Symbols = c.current.Symbols.Parent()
restoreSymbols(c, scope) ==
    [c EXCEPT !.scopes[scope].Symbols = c.tables[c.scopes[scope].Symbols].parent]

enterBlock(c, scope) ==
    [c EXCEPT !.tables = NewBlock(c.tables, c.scopes[scope].Symbols),
              !.scopes[scope].Symbols = Len(c.tables) + 1]

compileBlock(c, node) ==
    \* the deferred restore runs on the error path too
    restoreSymbols(compileStatements(enterBlock(c, c.current), node.kids, 1),
                   c.current)

\* InsertVariable of a declared name and the store into its slot
declare(c, name) ==
    LET r == InsertVariable(c.tables, c.scopes[c.current].Symbols, name)
        c2 == [c EXCEPT !.tables = r.tables]
    IN  IF r.err THEN Fail(c, "redeclared")
        ELSE IF c2.scopes[c2.current].Parent = 0
        THEN emit(c2, "StoreGlobal", <<r.Index>>)
        ELSE emit(c2, "StoreFast", <<r.Index>>)

\* *ast.Var, and compileConst, which is the same code
compileVar(c, node) ==
    Then(compile(c, node.kids[1]), LAMBDA c1 : declare(c1, node.s))

compileIdent(c, node) ==
    LET sym == Lookup(c.tables, c.scopes[c.current].Symbols, node.s)
        c1 == [c EXCEPT !.tables = sym.tables]
    IN  IF ~sym.found THEN Fail(c, "undefined variable")
        ELSE emit(c1, LoadFor(sym.Scope), <<sym.Index>>)

compilePostfix(c, node) ==
    LET sym == Lookup(c.tables, c.scopes[c.current].Symbols, node.s)
        c1 == [c EXCEPT !.tables = sym.tables]
        c2 == emit(c1, LoadFor(sym.Scope), <<sym.Index>>)
        c3 == emit(constant(c2, NewInt(IF node.ps[1] = "++" THEN 1 ELSE -1)),
                   "LoadConst", <<constantIndex(c2)>>)
        c4 == emit(c3, "BinaryOp", <<KindNumber(BinaryOps, "Add")>>)
    IN  IF ~sym.found THEN Fail(c, "undefined variable")
        ELSE IF sym.Scope = "Builtin" THEN Fail(c1, "invalid operation on builtin")
        ELSE IF node.ps[1] \notin {"++", "--"} THEN Fail(c2, "unknown operator")
        ELSE emit(c4, StoreFor(sym.Scope), <<sym.Index>>)

compoundOperator(c, operator) ==
    IF operator \in {"+=", "-=", "*=", "/="}
    THEN emit(c, "BinaryOp", <<KindNumber(BinaryOps,
                 CASE operator = "+=" -> "Add"
                   [] operator = "-=" -> "Subtract"
                   [] operator = "*=" -> "Multiply"
                   [] OTHER -> "Divide")>>)
    ELSE c

compileAssign(c, node) ==
    LET sym == Lookup(c.tables, c.scopes[c.current].Symbols, node.s)
        c1 == [c EXCEPT !.tables = sym.tables]
        operator == node.ps[1]
    IN  IF ~sym.found THEN Fail(c, "undefined variable")
        ELSE IF operator = "="
        THEN Then(compile(c1, node.kids[1]),
                  LAMBDA s1 : emit(s1, StoreFor(sym.Scope), <<sym.Index>>))
        ELSE Then(compile(emit(c1, LoadFor(sym.Scope), <<sym.Index>>),
                          node.kids[1]),
                  LAMBDA l2 : emit(compoundOperator(l2, operator),
                                   StoreFor(sym.Scope), <<sym.Index>>))

infixOperator(c2, o) ==
    LET binary == CASE o = "&&" -> "And" [] o = "||" -> "Or"
                    [] o = "+" -> "Add" [] o = "-" -> "Subtract"
                    [] o = "*" -> "Multiply" [] o = "/" -> "Divide"
                    [] o = "%" -> "Modulo" [] o = "**" -> "Power"
                    [] o = "<<" -> "LShift" [] o = ">>" -> "RShift"
                    [] OTHER -> ""
        compare == CASE o = ">" -> "GreaterThan"
                     [] o = ">=" -> "GreaterThanOrEqual"
                     [] o = "<" -> "LessThan"
                     [] o = "<=" -> "LessThanOrEqual"
                     [] o = "==" -> "Equal" [] o = "!=" -> "NotEqual"
                     [] OTHER -> ""
    IN  IF binary # ""
        THEN emit(c2, "BinaryOp", <<KindNumber(BinaryOps, binary)>>)
        ELSE IF compare # ""
        THEN emit(c2, "CompareOp", <<KindNumber(CompareOps, compare)>>)
        ELSE Fail(c2, "unknown operator")

compileInfix(c, node) ==
    Then(compile(c, node.kids[1]), LAMBDA c1 :
    Then(compile(c1, node.kids[2]), LAMBDA c2 : infixOperator(c2, node.s)))

compileCall(c, node) ==
    Then(compileStatements(c, node.kids, 1),
         LAMBDA c1 : emit(c1, "Call", <<U16(Len(node.kids) - 1)>>))

\* the check of the enclosing function left out
outsideFunctionUnchecked(c) == FALSE

\* c.current.Parent == nil: the statement is not inside a function
outsideFunction(c) == c.scopes[c.current].Parent = 0

compileControl(c, node) ==
    LET loop == currentLoop(c)
        position == emitPos(c)
    IN  IF node.s = "return"
        THEN (IF outsideFunction(c)
              THEN Fail(c, "return outside of function")
              ELSE Then(compile(c, node.kids[1]),
                        LAMBDA v : emit(v, "ReturnValue", <<1>>)))
        ELSE IF loop = 0
        THEN Fail(c, IF node.s = "break" THEN "break outside of loop"
                     ELSE "continue outside of loop")
        ELSE IF node.s = "break"
        THEN [emit(c, "JumpForward", <<Placeholder>>) EXCEPT
                 !.scopes[c.current].Loops[loop].BreakPos = Append(@, position)]
        ELSE [emit(c, "JumpBackward", <<Placeholder>>) EXCEPT
                 !.scopes[c.current].Loops[loop].ContinuePos = Append(@, position)]

RECURSIVE patchAll(_, _, _, _, _)
patchAll(c, positions, i, base, forward) ==
    IF i > Len(positions) \/ c.err # "" THEN c
    ELSE patchAll(changeOperand(c, positions[i],
                      IF forward THEN U16(base - positions[i])
                      ELSE U16(positions[i] - base)),
                  positions, i + 1, base, forward)

\* history: the loop that is closed, with the position of the first
\* instruction of its body in its own scope, of its closing JumpBackward and of
\* the Nop after it, and the positions of its break and continue jumps
logLoop(c, scope, loop, bodyPos, backPos, nopPos) ==
    [c EXCEPT !.scopes[scope].LoopLog =
        Append(@, [body |-> bodyPos, back |-> backPos, nop |-> nopPos,
                   breaks |-> c.scopes[scope].Loops[loop].BreakPos,
                   continues |-> c.scopes[scope].Loops[loop].ContinuePos])]

\* the end of compileSimpleFor: the jump back, the Nop, and the patches of the
\* break and continue jumps of the loop
closeLoop(c1, scope, loop, startPos, bodyPos) ==
    Bind(emit(c1, "JumpBackward", <<calculateDelta(c1, startPos)>>), LAMBDA c2 :
    Bind(emit(c2, "Nop", <<>>), LAMBDA c3 :
    Bind(patchAll(c3, c3.scopes[scope].Loops[loop].BreakPos, 1, emitPos(c2),
                  TRUE), LAMBDA c4 :
    Bind(patchAll(c4, c4.scopes[scope].Loops[loop].ContinuePos, 1, startPos,
                  FALSE), LAMBDA c5 :
    logLoop(c5, scope, loop, bodyPos, emitPos(c1), emitPos(c2))))))

\* the deferred function of compileSimpleFor, which runs on the error path
\* too: endLoop on the scope that is current now, then the restore of the
\* symbol table of the scope of the loop, which a panic of endLoop skips
leaveLoop(c, scope) ==
    IF currentLoop(c) = 0 THEN endLoop(c)
    ELSE restoreSymbols(endLoop(c), scope)

compileSimpleFor(c, node) ==
    LET scope == c.current
        entered == startLoop(enterBlock(c, scope))
        loop == Len(entered.scopes[scope].Loops)
        \* c.Instructions() is the instruction buffer of the main scope
        startPos == U16(Len(c.scopes[1].Instructions))
    IN  leaveLoop(Then(compile(entered, node.kids[1]),
                       LAMBDA c1 : closeLoop(c1, scope, loop, startPos,
                                             Len(CurrentInstructions(c)))),
                  scope)

\* history of compileIf: the position of the conditional jump, of the first
\* instruction of the consequence, of the jump over the alternative (-1
\* without one), of the first instruction after the consequence and its jump,
\* and of the first instruction after the whole if
logIf(c, jumpIfFalsePos, jumpForwardPos, alternativePos) ==
    [c EXCEPT !.scopes[c.current].IfLog = Append(@,
        [ifPos |-> jumpIfFalsePos,
         thenPos |-> jumpIfFalsePos
                     + Len(MakeInstruction(c.layout, "PopJumpForwardIfFalse",
                                           <<Placeholder>>)),
         skipPos |-> jumpForwardPos,
         elsePos |-> alternativePos,
         endPos |-> emitPos(c)])]

\* the end of compileIf, with and without an alternative
compileAlternative(c3, node, jumpIfFalsePos) ==
    IF Len(node.kids) = 3
    THEN Bind(emit(c3, "JumpForward", <<Placeholder>>), LAMBDA a1 :
         Then(compile(changeOperand(a1, jumpIfFalsePos,
                                    calculateDelta(a1, jumpIfFalsePos)),
                      node.kids[3]), LAMBDA a3 :
         logIf(changeOperand(a3, emitPos(c3), calculateDelta(a3, emitPos(c3))),
               jumpIfFalsePos, emitPos(c3), emitPos(a1))))
    ELSE logIf(changeOperand(c3, jumpIfFalsePos,
                             calculateDelta(c3, jumpIfFalsePos)),
               jumpIfFalsePos, 0 - 1, emitPos(c3))

compileIf(c, node) ==
    Then(compile(c, node.kids[1]), LAMBDA c1 :
    Then(compile(emit(c1, "PopJumpForwardIfFalse", <<Placeholder>>),
                 node.kids[2]), LAMBDA c3 :
    compileAlternative(c3, node, emitPos(c1))))

RECURSIVE insertParams(_, _, _, _)
insertParams(tables, t, params, i) ==
    IF i > Len(params) THEN tables
    ELSE insertParams(InsertVariable(tables, t, params[i]).tables, t, params,
                      i + 1)

RECURSIVE emitCells(_, _, _)
\* the loop over the free symbols stopping one short
emitCellsButLast(c, freeSymbols, i) ==
    IF i >= Len(freeSymbols) THEN c
    ELSE emitCells(emit(c, "MakeCell", <<freeSymbols[i].Index,
                                         U16(freeSymbols[i].Depth - 1)>>),
                   freeSymbols, i + 1)

emitCells(c, freeSymbols, i) ==
    IF i > Len(freeSymbols) THEN c
    ELSE emitCells(emit(c, "MakeCell", <<freeSymbols[i].Index,
                                         U16(freeSymbols[i].Depth - 1)>>),
                   freeSymbols, i + 1)

RECURSIVE Ancestor(_, _, _)
\* the scope depth function boundaries above scope s
Ancestor(c, s, depth) ==
    IF depth = 0 \/ s = 0 THEN s
    ELSE Ancestor(c, c.scopes[s].Parent, depth - 1)

\* history of the MakeCell loop of compileFunc: where each MakeCell will
\* stand in the enclosing scope, and the scope that declares its variable
logCells(c, funcScope, freeSymbols) ==
    LET width == Len(MakeInstruction(c.layout, "MakeCell", <<0, 0>>))
    IN  [c EXCEPT !.scopes[c.current].CellLog = @ \o
            [i \in 1..Len(freeSymbols) |->
                [pos |-> emitPos(c) + (i - 1) * width,
                 name |-> freeSymbols[i].Name,
                 index |-> freeSymbols[i].Index,
                 decl |-> Ancestor(c, funcScope, freeSymbols[i].Depth)]]]

\* the start of compileFunc: the new scope, its parameters and its own name
enterFunc(c, node) ==
    LET parent == c.current
        funcScope == Len(c.scopes) + 1
        funcTable == Len(c.tables) + 1
        t1 == NewChild(c.tables, c.scopes[parent].Symbols)
        t2 == insertParams(t1, funcTable, node.ps, 1)
    IN  [c EXCEPT !.scopes = Append([@ EXCEPT ![parent].Children =
                                         Append(@, funcScope)],
                                    NewScope(node.s, node.n = 1, parent,
                                             funcTable)),
                  !.tables = IF node.n = 1
                             THEN InsertVariable(t2, funcTable, node.s).tables
                             ELSE t2,
                  !.current = funcScope]

\* the implicit return at the end of a function body
implicitReturn(c2, statements) ==
    IF Len(statements) = 0
    THEN emit(emit(c2, "Nil", <<>>), "ReturnValue", <<1>>)
    ELSE IF statements[Len(statements)].type # "Control"
    THEN emit(c2, "ReturnValue", <<1>>)
    ELSE c2

\* the end of compileFunc, in the enclosing scope: the function as a constant,
\* loaded as a closure over its free variables if it has any
loadFunc(c4, funcScope) ==
    LET freeSymbols == Free(c4.tables, c4.scopes[funcScope].Symbols)
        fn == NewCompiledFunction(funcScope)
    IN  IF Len(freeSymbols) > 0
        THEN Bind(emitCells(logCells(c4, funcScope, freeSymbols),
                            freeSymbols, 1), LAMBDA m :
                  emit(constant(m, fn), "LoadClosure",
                       <<constantIndex(m), U16(Len(freeSymbols))>>))
        ELSE emit(constant(c4, fn), "LoadConst", <<constantIndex(c4)>>)

leaveFunc(c3) == [c3 EXCEPT !.current = c3.scopes[c3.current].Parent]

compileFunc(c, node) ==
    \* an error in the body returns with c.current still the function's scope
    Then(compileStatements(enterFunc(c, node), node.kids[1].kids, 1), LAMBDA c2 :
    Bind(loadFunc(leaveFunc(implicitReturn(c2, node.kids[1].kids)),
                  Len(c.scopes) + 1), LAMBDA c5 :
    IF node.n = 1 THEN declare(c5, node.s) ELSE c5))

compile(c, node) ==
    CASE node.type = "Nil" -> emit(c, "Nil", <<>>)
      [] node.type = "Int" ->
            emit(constant(c, NewInt(node.n)), "LoadConst", <<constantIndex(c)>>)
      [] node.type = "Bool" ->
            emit(c, IF node.n = 1 THEN "True" ELSE "False", <<>>)
      [] node.type = "If" -> compileIf(c, node)
      [] node.type = "Infix" -> compileInfix(c, node)
      [] node.type = "Program" -> compileStatements(c, node.kids, 1)
      [] node.type = "Block" -> compileBlock(c, node)
      [] node.type \in {"Var", "Const"} -> compileVar(c, node)
      [] node.type = "Assign" -> compileAssign(c, node)
      [] node.type = "Ident" -> compileIdent(c, node)
      [] node.type = "For" -> compileSimpleFor(c, node)
      [] node.type = "Control" -> compileControl(c, node)
      [] node.type = "Call" -> compileCall(c, node)
      [] node.type = "Func" -> compileFunc(c, node)
      [] node.type = "Postfix" -> compilePostfix(c, node)

\* Compiler.Compile
Compile(c, node) == compile(c, node)

-----------------------------------------------------------------------------
(* vm: frames, stack, fetch *)

\* Frame.Init: no function, localsCount empty locals
FrameInit(returnAddr, localsArray, scope) ==
    [fn |-> GoNil, locals |-> localsArray, returnAddr |-> returnAddr,
     scope |-> scope, callPos |-> 0, callScope |-> scope, base |-> 0,
     callerLocals |-> <<>>]

\* Frame.InitWithLocals: the frame of a call of fn.  callPos, callScope, base
\* and callerLocals are history kept for the properties: where the Call
\* instruction stands, the depth of the operand stack below the callee, and
\* the locals of the calling frame when the Call was executed
FrameInitWithLocals(fn, returnAddr, localsArray) ==
    [fn |-> fn, locals |-> localsArray, returnAddr |-> returnAddr,
     scope |-> fn.n, callPos |-> 0, callScope |-> 0, base |-> 0,
     callerLocals |-> <<>>]

\* the locals vector of a call: sized to the symbol count of the function,
\* filled with the arguments
LocalsOf(fn, args) ==
    LET size == Max(Size(symbolTables, scopes[fn.n].Symbols), Len(args))
    IN  [i \in 1..size |-> IF i <= Len(args) THEN args[i] ELSE GoNil]

\* the locals of the new frame written over the vector that was made last
InitLocalsInPlace(h, fn, args) == [h EXCEPT ![Len(h)] = LocalsOf(fn, args)]

\* Frame.InitWithLocals: the new frame gets a locals vector of its own
InitLocals(h, fn, args) == Append(h, LocalsOf(fn, args))

Push(stk, v) == Append(stk, v)
\* Stack.Pop: the top, or nil from an empty stack
Top(stk) == IF Len(stk) = 0 THEN GoNil ELSE stk[Len(stk)]
Pop(stk) == IF Len(stk) = 0 THEN stk ELSE SubSeq(stk, 1, Len(stk) - 1)
\* n times Pop
PopN(stk, n) == IF n >= Len(stk) THEN <<>> ELSE SubSeq(stk, 1, Len(stk) - n)
\* the i-th value popped, i = 1 the first
Popped(stk, i) == Top(PopN(stk, i - 1))

Instructions == scopes[currentScope].Instructions
Constants == scopes[currentScope].Constants
InRange(at) == at >= 0 /\ at < Len(Instructions)
Word(at) == Instructions[at + 1]
currentFrame == frames[framesIndex + 1]

\* VM.fetch at position at: one word as uint8
fetch(at) ==
    IF ~InRange(at) THEN [r |-> "panic", v |-> 0]
    ELSE IF Word(at).k = "op" THEN [r |-> "desync", v |-> 0]
    ELSE [r |-> "ok", v |-> U8(Word(at).n)]

\* VM.fetch2 at position at: two words as little-endian uint16
fetch2(at) ==
    IF ~InRange(at) \/ ~InRange(at + 1) THEN [r |-> "panic", v |-> 0]
    ELSE IF Word(at).k = "op" \/ Word(at + 1).k = "op"
    THEN [r |-> "desync", v |-> 0]
    ELSE [r |-> "ok",
          v |-> Bitwise("Or", U16(Word(at).n), U16(Word(at + 1).n * 256), 16)]

\* the dispatch loop is about to execute opcode
Dispatch(opcode) ==
    /\ status = "running"
    /\ InRange(ip)
    /\ Word(ip).k = "op"
    /\ Word(ip).o = opcode

Executed(opcode, operands) ==
    [op |-> opcode, pos |-> ip, scope |-> currentScope, operands |-> operands,
     framesIndex |-> framesIndex]

\* Run ends: returns an error, or the host panics, or the layout is lost
Stop(how) ==
    /\ status' = how
    /\ UNCHANGED <<ip, stack, frames, framesIndex, currentScope, globals, heap>>

StopPopped(how, stk) ==
    /\ status' = how
    /\ stack' = stk
    /\ UNCHANGED <<ip, frames, framesIndex, currentScope, globals, heap>>

Continue(newIp, stk) ==
    /\ ip' = newIp
    /\ stack' = stk
    /\ UNCHANGED <<status, frames, framesIndex, currentScope, globals, heap>>

Fixed == UNCHANGED <<input, scopes, symbolTables, compiler>>

-----------------------------------------------------------------------------
(* vm: the opcodes of the dispatch loop in VM.Run *)

DoNop ==
    /\ Dispatch("Nop")
    /\ last' = Executed("Nop", <<>>)
    /\ Continue(ip + 1, stack)
    /\ Fixed

DoLoadConst ==
    /\ Dispatch("LoadConst")
    /\ LET a == fetch2(ip + 1)
       IN  /\ last' = Executed("LoadConst", <<a>>)
           /\ IF a.r # "ok" THEN Stop(a.r)
              ELSE IF a.v >= Len(Constants) THEN Stop("panic")
              ELSE Continue(ip + 3, Push(stack, Constants[a.v + 1]))
    /\ Fixed

DoLoadFast ==
    /\ Dispatch("LoadFast")
    /\ LET a == fetch2(ip + 1)
           locals == heap[currentFrame.locals]
       IN  /\ last' = Executed("LoadFast", <<a>>)
           /\ IF a.r # "ok" THEN Stop(a.r)
              ELSE IF a.v >= Len(locals) THEN Stop("panic")
              ELSE Continue(ip + 3, Push(stack, locals[a.v + 1]))
    /\ Fixed

DoLoadGlobal ==
    /\ Dispatch("LoadGlobal")
    /\ LET a == fetch2(ip + 1)
       IN  /\ last' = Executed("LoadGlobal", <<a>>)
           /\ IF a.r # "ok" THEN Stop(a.r)
              ELSE IF a.v >= Len(globals) THEN Stop("panic")
              ELSE Continue(ip + 3, Push(stack, globals[a.v + 1]))
    /\ Fixed

\* Cell.Value
CellValue(cell) == heap[cell.n][cell.xs[1] + 1]

DoLoadFree ==
    /\ Dispatch("LoadFree")
    /\ LET a == fetch2(ip + 1)
           freeVars == currentFrame.fn.xs
       IN  /\ last' = Executed("LoadFree", <<a>>)
           /\ IF currentFrame.fn.t # "fn" THEN Stop("panic")
              ELSE IF a.r # "ok" THEN Stop(a.r)
              ELSE IF a.v >= Len(freeVars) THEN Stop("panic")
              ELSE Continue(ip + 3, Push(stack, CellValue(freeVars[a.v + 1])))
    /\ Fixed

DoStoreFast ==
    /\ Dispatch("StoreFast")
    /\ LET a == fetch(ip + 1)
           locals == heap[currentFrame.locals]
       IN  /\ last' = Executed("StoreFast", <<a>>)
           /\ IF a.r # "ok" THEN Stop(a.r)
              ELSE IF a.v >= Len(locals) THEN StopPopped("panic", Pop(stack))
              ELSE /\ ip' = ip + 2
                   /\ stack' = Pop(stack)
                   /\ heap' = [heap EXCEPT ![currentFrame.locals][a.v + 1] =
                                               Top(stack)]
                   /\ UNCHANGED <<status, frames, framesIndex, currentScope,
                                  globals>>
    /\ Fixed

DoStoreGlobal ==
    /\ Dispatch("StoreGlobal")
    /\ LET a == fetch2(ip + 1)
       IN  /\ last' = Executed("StoreGlobal", <<a>>)
           /\ IF a.r # "ok" THEN Stop(a.r)
              ELSE IF a.v >= Len(globals) THEN StopPopped("panic", Pop(stack))
              ELSE /\ ip' = ip + 3
                   /\ stack' = Pop(stack)
                   /\ globals' = [globals EXCEPT ![a.v + 1] = Top(stack)]
                   /\ UNCHANGED <<status, frames, framesIndex, currentScope,
                                  heap>>
    /\ Fixed

DoStoreFree ==
    /\ Dispatch("StoreFree")
    /\ LET a == fetch2(ip + 1)
           freeVars == currentFrame.fn.xs
           cell == freeVars[a.v + 1]
       IN  /\ last' = Executed("StoreFree", <<a>>)
           /\ IF currentFrame.fn.t # "fn" THEN Stop("panic")
              ELSE IF a.r # "ok" THEN Stop(a.r)
              ELSE IF a.v >= Len(freeVars) THEN StopPopped("panic", Pop(stack))
              ELSE /\ ip' = ip + 3
                   /\ stack' = Pop(stack)
                   /\ heap' = [heap EXCEPT ![cell.n][cell.xs[1] + 1] = Top(stack)]
                   /\ UNCHANGED <<status, frames, framesIndex, currentScope,
                                  globals>>
    /\ Fixed

DoLoadClosure ==
    /\ Dispatch("LoadClosure")
    /\ LET constIndex == fetch2(ip + 1)
           freeCount == fetch2(ip + 3)
           free == [i \in 1..freeCount.v |-> Popped(stack, i)]
           bad == {i \in 1..freeCount.v : free[i].t # "cell"}
           firstBad == CHOOSE i \in bad : \A j \in bad : i <= j
           rest == PopN(stack, freeCount.v)
           fn == Constants[constIndex.v + 1]
       IN  /\ last' = Executed("LoadClosure", <<constIndex, freeCount>>)
           /\ IF constIndex.r # "ok" THEN Stop(constIndex.r)
              ELSE IF freeCount.r # "ok" THEN Stop(freeCount.r)
              ELSE IF bad # {}
              THEN StopPopped("expected cell", PopN(stack, firstBad))
              ELSE IF constIndex.v >= Len(Constants) THEN StopPopped("panic", rest)
              ELSE IF fn.t # "fn" THEN StopPopped("panic", rest)
              ELSE Continue(ip + 5, Push(rest, NewClosure(fn, free)))
    /\ Fixed

DoMakeCell ==
    /\ Dispatch("MakeCell")
    /\ LET symbolIndex == fetch2(ip + 1)
           framesBack == fetch(ip + 3)
           frameIndex == framesIndex - framesBack.v
           frame == frames[frameIndex + 1]
       IN  /\ last' = Executed("MakeCell", <<symbolIndex, framesBack>>)
           /\ IF symbolIndex.r # "ok" THEN Stop(symbolIndex.r)
              ELSE IF framesBack.r # "ok" THEN Stop(framesBack.r)
              ELSE IF frameIndex < 0 THEN Stop("no frame at depth")
              ELSE IF symbolIndex.v >= Len(heap[frame.locals]) THEN Stop("panic")
              ELSE Continue(ip + 4,
                            Push(stack, NewCell(frame.locals, symbolIndex.v)))
    /\ Fixed

DoNil ==
    /\ Dispatch("Nil")
    /\ last' = Executed("Nil", <<>>)
    /\ Continue(ip + 1, Push(stack, Nil))
    /\ Fixed

DoTrue ==
    /\ Dispatch("True")
    /\ last' = Executed("True", <<>>)
    /\ Continue(ip + 1, Push(stack, True))
    /\ Fixed

DoFalse ==
    /\ Dispatch("False")
    /\ last' = Executed("False", <<>>)
    /\ Continue(ip + 1, Push(stack, False))
    /\ Fixed

\* VM.runCompareOp; "panic" stands for the failed type assertion
runCompareOp(opType, a, b) ==
    CASE opType = "Equal" -> IF a.t = "<nil>" THEN Panicked ELSE Equals(a, b)
      [] opType = "NotEqual" ->
            IF a.t = "<nil>" THEN Panicked
            ELSE IF Equals(a, b) = True THEN False ELSE True
      [] opType = "unknown" -> Panicked
      [] a.t # "int" \/ b.t # "int" -> Panicked
      [] opType = "LessThan" -> NewBool(a.n < b.n)
      [] opType = "LessThanOrEqual" -> NewBool(a.n <= b.n)
      [] opType = "GreaterThan" -> NewBool(a.n > b.n)
      [] opType = "GreaterThanOrEqual" -> NewBool(a.n >= b.n)

Abs(x) == IF x < 0 THEN -x ELSE x
Sign(x) == IF x < 0 THEN -1 ELSE 1
\* Go's integer division truncates towards zero
Quo(a, b) == Sign(a) * Sign(b) * (Abs(a) \div Abs(b))
Rem(a, b) == a - b * Quo(a, b)
\* a & b, a | b and a ^ b on signed integers (two's complement)
Complement(x) == -1 - x
AndInt(a, b) ==
    CASE a >= 0 /\ b >= 0 -> Bitwise("And", a, b, 31)
      [] a < 0 /\ b >= 0 -> b - Bitwise("And", b, Complement(a), 31)
      [] a >= 0 /\ b < 0 -> a - Bitwise("And", a, Complement(b), 31)
      [] OTHER -> Complement(Bitwise("Or", Complement(a), Complement(b), 31))
OrInt(a, b) == Complement(AndInt(Complement(a), Complement(b)))
XorInt(a, b) == OrInt(a, b) - AndInt(a, b)
RECURSIVE Pow(_, _)
Pow(a, b) == IF b <= 0 THEN 1 ELSE a * Pow(a, b - 1)

\* VM.runBinaryOp; "panic" stands for the failed type assertion and for the
\* integer division by zero, GoNil for the nil the function returns
runBinaryOp(opType, a, b) ==
    CASE opType = "unknown" -> GoNil
      [] a.t # "int" \/ b.t # "int" -> Panicked
      [] opType = "Add" -> NewInt(a.n + b.n)
      [] opType = "Subtract" -> NewInt(a.n - b.n)
      [] opType = "Multiply" -> NewInt(a.n * b.n)
      [] opType = "Divide" ->
            IF b.n = 0 THEN Panicked ELSE NewInt(Quo(a.n, b.n))
      [] opType = "Modulo" ->
            IF b.n = 0 THEN Panicked ELSE NewInt(Rem(a.n, b.n))
      [] opType = "And" -> NewInt(AndInt(a.n, b.n))
      [] opType = "Or" -> NewInt(OrInt(a.n, b.n))
      [] opType = "Xor" -> NewInt(XorInt(a.n, b.n))
      [] opType = "Power" ->
            IF b.n >= 0 THEN NewInt(Pow(a.n, b.n))
            ELSE NewInt(IF a.n = 1 THEN 1 ELSE 0)
      [] opType = "LShift" ->
            IF b.n < 0 THEN Panicked
            ELSE IF b.n >= 64 THEN NewInt(0)
            ELSE NewInt(a.n * Pow(2, b.n))
      [] opType = "RShift" ->
            IF b.n < 0 THEN Panicked
            ELSE IF b.n >= 64 THEN NewInt(IF a.n < 0 THEN -1 ELSE 0)
            ELSE NewInt(a.n \div Pow(2, b.n))

DoCompareOp ==
    /\ Dispatch("CompareOp")
    /\ LET k == fetch(ip + 1)
           b == Popped(stack, 1)
           a == Popped(stack, 2)
           result == runCompareOp(KindName(CompareOps, k.v), a, b)
       IN  /\ last' = Executed("CompareOp", <<k>>)
           /\ IF k.r # "ok" THEN Stop(k.r)
              ELSE IF result.t = "panic" THEN StopPopped("panic", PopN(stack, 2))
              ELSE Continue(ip + 2, Push(PopN(stack, 2), result))
    /\ Fixed

DoBinaryOp ==
    /\ Dispatch("BinaryOp")
    /\ LET k == fetch(ip + 1)
           b == Popped(stack, 1)
           a == Popped(stack, 2)
           result == runBinaryOp(KindName(BinaryOps, k.v), a, b)
       IN  /\ last' = Executed("BinaryOp", <<k>>)
           /\ IF k.r # "ok" THEN Stop(k.r)
              ELSE IF result.t = "panic" THEN StopPopped("panic", PopN(stack, 2))
              ELSE Continue(ip + 2, Push(PopN(stack, 2), result))
    /\ Fixed

\* tmpArgs[i] = vm.Pop(): the arguments in the order they are popped
PopArgsReversed(stk, argc) == [j \in 1..argc |-> Popped(stk, j)]

\* tmpArgs[argc-1-i] = vm.Pop() for i = 0 .. argc-1
PopArgs(stk, argc) == [j \in 1..argc |-> Popped(stk, argc + 1 - j)]

\* the guard with > for >=: one frame too many
FrameOverflowOffByOne == framesIndex + 1 > MaxFrameDepth

\* vm.framesIndex+1 >= MaxFrameDepth
FrameOverflow == framesIndex + 1 >= MaxFrameDepth

\* a function that carries cells is not taken for a function
CallableWithoutCells(obj) == obj.t = "fn" /\ obj.xs = <<>>

\* case *object.CompiledFunction of the type switch of Call: a function, with
\* or without cells
Callable(obj) == obj.t = "fn"

DoCall ==
    /\ Dispatch("Call")
    /\ LET a == fetch(ip + 1)
           argc == a.v
           tmpArgs == PopArgs(stack, argc)
           obj == Popped(stack, argc + 1)
           rest == PopN(stack, argc + 1)
           named == scopes[obj.n].IsNamed
           args == IF named THEN Append(tmpArgs, obj) ELSE tmpArgs
           frame == FrameInitWithLocals(obj, ip + 2,
                                        Len(InitLocals(heap, obj, args)))
       IN  /\ last' = Executed("Call", <<a>>)
           /\ IF a.r # "ok" THEN Stop(a.r)
              ELSE IF Callable(obj)
              THEN IF FrameOverflow
                   THEN StopPopped("frame overflow", rest)
                   ELSE IF named /\ argc >= MaxArgs
                   THEN StopPopped("panic", rest)
                   ELSE /\ framesIndex' = framesIndex + 1
                        /\ heap' = InitLocals(heap, obj, args)
                        /\ frames' = Append(frames,
                               [frame EXCEPT !.callPos = ip,
                                             !.callScope = currentScope,
                                             !.base = Len(rest),
                                             !.callerLocals =
                                                 heap[currentFrame.locals]])
                        /\ ip' = 0
                        /\ currentScope' = obj.n
                        /\ stack' = rest
                        /\ UNCHANGED <<status, globals>>
              ELSE StopPopped("not a function", rest)
    /\ Fixed

\* the scope of the frame that is left, for the scope of the caller's
ReturnScopeOfLeaving == currentFrame.scope

\* currentFrame.Scope() of the frame returned to
ReturnScope == frames[framesIndex].scope

DoReturnValue ==
    /\ Dispatch("ReturnValue")
    /\ last' = Executed("ReturnValue", <<>>)
    /\ IF framesIndex < 1 THEN Stop("frame underflow")
       ELSE /\ framesIndex' = framesIndex - 1
            /\ frames' = SubSeq(frames, 1, framesIndex)
            /\ ip' = currentFrame.returnAddr
            /\ currentScope' = ReturnScope
            /\ UNCHANGED <<status, stack, globals, heap>>
    /\ Fixed

DoPopJumpForwardIfFalse ==
    /\ Dispatch("PopJumpForwardIfFalse")
    /\ LET tos == Top(stack)
           a == fetch2(ip + 1)
           delta == a.v - 3
       IN  /\ last' = Executed("PopJumpForwardIfFalse", <<a>>)
           /\ IF a.r # "ok" THEN StopPopped(a.r, Pop(stack))
              ELSE IF tos.t = "<nil>" THEN StopPopped("panic", Pop(stack))
              ELSE IF ~IsTruthy(tos) THEN Continue(ip + 3 + delta, Pop(stack))
              ELSE Continue(ip + 3, Pop(stack))
    /\ Fixed

DoJumpForward ==
    /\ Dispatch("JumpForward")
    /\ LET base == ip
           a == fetch2(ip + 1)
       IN  /\ last' = Executed("JumpForward", <<a>>)
           /\ IF a.r # "ok" THEN Stop(a.r)
              ELSE Continue(base + a.v, stack)
    /\ Fixed

DoJumpBackward ==
    /\ Dispatch("JumpBackward")
    /\ LET base == ip
           a == fetch2(ip + 1)
       IN  /\ last' = Executed("JumpBackward", <<a>>)
           /\ IF a.r # "ok" THEN Stop(a.r)
              ELSE Continue(base - a.v, stack)
    /\ Fixed

\* the opcodes that have a case in the switch of the dispatch loop
VMOpcodes ==
    {"Nop", "LoadAttr", "LoadConst", "LoadFast", "LoadGlobal", "LoadFree",
     "StoreFast", "StoreGlobal", "StoreFree", "LoadClosure", "MakeCell", "Nil",
     "True", "False", "CompareOp", "BinaryOp", "Call", "ReturnValue",
     "PopJumpForwardIfTrue", "PopJumpForwardIfFalse", "PopJumpBackwardIfTrue",
     "PopJumpBackwardIfFalse", "JumpForward", "JumpBackward", "Print",
     "BuildList", "BuildMap", "BuildSet", "BinarySubscr", "UnaryNegative",
     "UnaryNot", "ContainsOp", "Halt"}

\* default: the opcode has no case
DoUnknownOpcode ==
    /\ status = "running"
    /\ InRange(ip)
    /\ Word(ip).k = "op"
    /\ Word(ip).o \notin VMOpcodes
    /\ last' = Executed(Word(ip).o, <<>>)
    /\ Stop("unknown opcode")
    /\ Fixed

\* the opcode fetch reads a word that was emitted as an operand, or ip has
\* left the buffer below
FetchOperandAsOpcode ==
    /\ status = "running"
    /\ ip < Len(Instructions)
    /\ last' = Executed("", <<>>)
    /\ \/ ip < 0 /\ Stop("panic")
       \/ ip >= 0 /\ Word(ip).k = "arg" /\ Stop("desync")
    /\ Fixed

\* the loop condition fails: Run returns nil
RunReturns ==
    /\ status = "running"
    /\ ip >= Len(Instructions)
    /\ last' = Executed("", <<>>)
    /\ Stop("done")
    /\ Fixed

-----------------------------------------------------------------------------
(* The programs that are run *)

\* var x = 1 + 2 * 3; x
ProgSum ==
    AProgram(<<AVar("x", AInfix(AInt(1), "+", AInfix(AInt(2), "*", AInt(3)))),
               AIdent("x")>>)

\* func add(a, b) { return a + b }; add(40, 2)
ProgAdd ==
    AProgram(<<AFunc("add", <<"a", "b">>,
                     <<AReturn(AInfix(AIdent("a"), "+", AIdent("b")))>>),
               ACall(AIdent("add"), <<AInt(40), AInt(2)>>)>>)

\* func mk() { var n = 0; func inc() { n = n + 1; return n }; return inc }
\* var f = mk(); f(); ... f()       with k calls of f
ProgCounter(k) ==
    AProgram(<<AFunc("mk", <<>>,
                 <<AVar("n", AInt(0)),
                   AFunc("inc", <<>>,
                       <<AAssign("n", "=", AInfix(AIdent("n"), "+", AInt(1))),
                         AReturn(AIdent("n"))>>),
                   AReturn(AIdent("inc"))>>),
               AVar("f", ACall(AIdent("mk"), <<>>))>>
             \o [i \in 1..k |-> ACall(AIdent("f"), <<>>)])

\* func g() { var x = 5; func p() { func c() { return x }; return c };
\*            return p }
\* var p = g(); var c = p(); c()
ProgGrand ==
    AProgram(<<AFunc("g", <<>>,
                 <<AVar("x", AInt(5)),
                   AFunc("p", <<>>,
                       <<AFunc("c", <<>>, <<AReturn(AIdent("x"))>>),
                         AReturn(AIdent("c"))>>),
                   AReturn(AIdent("p"))>>),
               AVar("p", ACall(AIdent("g"), <<>>)),
               AVar("c", ACall(AIdent("p"), <<>>)),
               ACall(AIdent("c"), <<>>)>>)

\* func mk() { var n = 0; func inc() { n = n + 1 }; inc(); return n }; mk()
ProgCapturedCaller ==
    AProgram(<<AFunc("mk", <<>>,
                 <<AVar("n", AInt(0)),
                   AFunc("inc", <<>>,
                       <<AAssign("n", "=", AInfix(AIdent("n"), "+", AInt(1)))>>),
                   ACall(AIdent("inc"), <<>>),
                   AReturn(AIdent("n"))>>),
               ACall(AIdent("mk"), <<>>)>>)

\* func v() { var t = 1 }; v()
ProgVarLast ==
    AProgram(<<AFunc("v", <<>>, <<AVar("t", AInt(1))>>),
               ACall(AIdent("v"), <<>>)>>)

\* func mk() { var x = 7; var y = 2; func f() { return x - y }; return f }
\* var f = mk(); f()
ProgTwoFree ==
    AProgram(<<AFunc("mk", <<>>,
                 <<AVar("x", AInt(7)),
                   AVar("y", AInt(2)),
                   AFunc("f", <<>>,
                       <<AReturn(AInfix(AIdent("x"), "-", AIdent("y")))>>),
                   AReturn(AIdent("f"))>>),
               AVar("f", ACall(AIdent("mk"), <<>>)),
               ACall(AIdent("f"), <<>>)>>)

\* func fact(n) { if n <= 1 { return 1 }; return n * fact(n-1) }; fact(n)
ProgFact(n) ==
    AProgram(<<AFunc("fact", <<"n">>,
                 <<AIf(AInfix(AIdent("n"), "<=", AInt(1)),
                       ABlock(<<AReturn(AInt(1))>>)),
                   AReturn(AInfix(AIdent("n"), "*",
                       ACall(AIdent("fact"),
                             <<AInfix(AIdent("n"), "-", AInt(1))>>)))>>),
               ACall(AIdent("fact"), <<AInt(n)>>)>>)

\* func f() { return f() }; f()
ProgRecurse ==
    AProgram(<<AFunc("f", <<>>, <<AReturn(ACall(AIdent("f"), <<>>))>>),
               ACall(AIdent("f"), <<>>)>>)

\* return 1
ProgReturnAtTop == AProgram(<<AReturn(AInt(1))>>)

\* func g(a, b) { return g }; g(1)
ProgFewArgs ==
    AProgram(<<AFunc("g", <<"a", "b">>, <<AReturn(AIdent("g"))>>),
               ACall(AIdent("g"), <<AInt(1)>>)>>)

\* func h(a) { var t = a; return t }; h(7)
ProgVarInBody ==
    AProgram(<<AFunc("h", <<"a">>, <<AVar("t", AIdent("a")),
                                     AReturn(AIdent("t"))>>),
               ACall(AIdent("h"), <<AInt(7)>>)>>)

\* var f = func(a) { return a }; f(3)
ProgAnonymous ==
    AProgram(<<AVar("f", AFuncLit(<<"a">>, <<AReturn(AIdent("a"))>>)),
               ACall(AIdent("f"), <<AInt(3)>>)>>)

\* func k() { 1 }; func e() { }; k(); e()
ProgImplicitReturn ==
    AProgram(<<AFunc("k", <<>>, <<AInt(1)>>), AFunc("e", <<>>, <<>>),
               ACall(AIdent("k"), <<>>), ACall(AIdent("e"), <<>>)>>)

\* if 1 < 2 { true } else { nil }; if 2 < 1 { nil } else { false }
ProgIfElse ==
    AProgram(<<AIfElse(AInfix(AInt(1), "<", AInt(2)),
                       ABlock(<<ABool(TRUE)>>), ABlock(<<ANil>>)),
               AIfElse(AInfix(AInt(2), "<", AInt(1)),
                       ABlock(<<ANil>>), ABlock(<<ABool(FALSE)>>))>>)

\* if true { nil }
ProgIfTrue == AProgram(<<AIf(ABool(TRUE), ABlock(<<ANil>>))>>)

\* func f() { return 1 }
ProgOne == AProgram(<<AFunc("f", <<>>, <<AReturn(AInt(1))>>)>>)

\* var s = 0; for { if s >= n { break }; s = s + 1 }; s
ProgLoop(n) ==
    AProgram(<<AVar("s", AInt(0)),
               AFor(ABlock(<<AIf(AInfix(AIdent("s"), ">=", AInt(n)),
                                 ABlock(<<ABreak>>)),
                             AAssign("s", "=",
                                     AInfix(AIdent("s"), "+", AInt(1)))>>)),
               AIdent("s")>>)

\* func l() { var s = 0; for { if s >= 1 { break }; s = s + 1 }; return s }
\* l()
ProgLoopInFunc ==
    AProgram(<<AFunc("l", <<>>,
                     <<AVar("s", AInt(0)),
                       AFor(ABlock(<<AIf(AInfix(AIdent("s"), ">=", AInt(1)),
                                         ABlock(<<ABreak>>)),
                                     AAssign("s", "=",
                                             AInfix(AIdent("s"), "+",
                                                    AInt(1)))>>)),
                       AReturn(AIdent("s"))>>),
               ACall(AIdent("l"), <<>>)>>)

\* var s = 0; var t = 0
\* for { t = 0
\*       for { t = t + 1; if t < 2 { continue }; break }
\*       s = s + t; if s < 4 { continue }; break }
\* s
ProgNested ==
    AProgram(<<AVar("s", AInt(0)), AVar("t", AInt(0)),
               AFor(ABlock(<<
                   AAssign("t", "=", AInt(0)),
                   AFor(ABlock(<<
                       AAssign("t", "=", AInfix(AIdent("t"), "+", AInt(1))),
                       AIf(AInfix(AIdent("t"), "<", AInt(2)),
                           ABlock(<<AContinue>>)),
                       ABreak>>)),
                   AAssign("s", "=", AInfix(AIdent("s"), "+", AIdent("t"))),
                   AIf(AInfix(AIdent("s"), "<", AInt(4)),
                       ABlock(<<AContinue>>)),
                   ABreak>>)),
               AIdent("s")>>)

\* var a = 1; func l() { for { continue } }
ProgContinueInFunc ==
    AProgram(<<AVar("a", AInt(1)),
               AFunc("l", <<>>, <<AFor(ABlock(<<AContinue>>))>>)>>)

\* for { continue }
ProgContinueFirst == AProgram(<<AFor(ABlock(<<AContinue>>))>>)

\* for { func f() { return x } }
ProgUndefinedInLoopFunc ==
    AProgram(<<AFor(ABlock(<<AFunc("f", <<>>, <<AReturn(AIdent("x"))>>)>>))>>)

\* { func f() { return x } }
ProgUndefinedInBlockFunc ==
    AProgram(<<ABlock(<<AFunc("f", <<>>, <<AReturn(AIdent("x"))>>)>>)>>)

\* var s = 0; for { if s >= 2 { break }; 7; s = s + 1 }
ProgLoopExpr ==
    AProgram(<<AVar("s", AInt(0)),
               AFor(ABlock(<<AIf(AInfix(AIdent("s"), ">=", AInt(2)),
                                 ABlock(<<ABreak>>)),
                             AInt(7),
                             AAssign("s", "=",
                                     AInfix(AIdent("s"), "+", AInt(1)))>>))>>)

\* break
ProgBreakAtTop == AProgram(<<ABreak>>)

\* for { break }; continue
ProgContinueAfterLoop == AProgram(<<AFor(ABlock(<<ABreak>>)), AContinue>>)

\* for { func f() { break } }
ProgBreakInLoopFunc ==
    AProgram(<<AFor(ABlock(<<AFunc("f", <<>>, <<ABreak>>)>>))>>)

\* x
ProgUndefinedRead == AProgram(<<AIdent("x")>>)

\* x = 1
ProgUndefinedAssign == AProgram(<<AAssign("x", "=", AInt(1))>>)

\* x += 1
ProgUndefinedCompound == AProgram(<<AAssign("x", "+=", AInt(1))>>)

\* x++
ProgUndefinedPostfix == AProgram(<<APostfix("x", "++")>>)

\* 6 / 0
ProgDivideByZero == AProgram(<<AInfix(AInt(6), "/", AInt(0))>>)

\* 6 % 0
ProgModuloByZero == AProgram(<<AInfix(AInt(6), "%", AInt(0))>>)

\* nil + nil
ProgAddNil == AProgram(<<AInfix(ANil, "+", ANil)>>)

\* true < nil
ProgLessBool == AProgram(<<AInfix(ABool(TRUE), "<", ANil)>>)

\* len(nil)
ProgBuiltin == AProgram(<<ACall(AIdent("len"), <<ANil>>)>>)

\* var a = 1; { var t = 2; t }
ProgVarInBlock ==
    AProgram(<<AVar("a", AInt(1)),
               ABlock(<<AVar("t", AInt(2)), AIdent("t")>>)>>)

\* nil(true)
ProgNotCallable == AProgram(<<ACall(ANil, <<ABool(TRUE)>>)>>)

\* var a = 1; var b = 2; func() { return b }()
ProgGlobalInFunc ==
    AProgram(<<AVar("a", AInt(1)), AVar("b", AInt(2)),
               ACall(AFuncLit(<<>>, <<AReturn(AIdent("b"))>>), <<>>)>>)

FixedPrograms ==
    <<ProgSum, ProgAdd, ProgRecurse, ProgReturnAtTop, ProgFewArgs,
      ProgVarInBody, ProgAnonymous, ProgImplicitReturn, ProgIfElse,
      ProgNotCallable, ProgLoop(2), ProgGlobalInFunc, ProgLoopInFunc,
      ProgNested, ProgContinueFirst, ProgContinueInFunc,
      ProgUndefinedInLoopFunc, ProgUndefinedInBlockFunc, ProgLoopExpr,
      ProgBreakAtTop, ProgContinueAfterLoop, ProgBreakInLoopFunc,
      ProgUndefinedRead, ProgUndefinedAssign, ProgUndefinedCompound,
      ProgUndefinedPostfix, ProgDivideByZero, ProgModuloByZero, ProgAddNil,
      ProgLessBool, ProgBuiltin, ProgLoop(0), ProgLoop(5),
      ProgVarInBlock, ProgGrand, ProgTwoFree, ProgIfTrue, ProgCapturedCaller,
      ProgVarLast>>

Programs ==
    FixedPrograms
    \o [k \in 1..MaxCalls |-> ProgCounter(k)]
    \o [n \in 1..MaxFact + 1 |-> ProgFact(n - 1)]

\* the place of a program in Programs
ProgramId(prog) == CHOOSE i \in 1..Len(Programs) : Programs[i] = prog
CounterProgram(k) == Len(FixedPrograms) + k
FactProgram(n) == Len(FixedPrograms) + MaxCalls + n + 1

\* a scope built by hand: Nil; ReturnValue in the main scope
RawReturn ==
    [New("table") EXCEPT !.scopes[1].Instructions =
        MakeInstruction("table", "Nil", <<>>)
        \o MakeInstruction("table", "ReturnValue", <<1>>)]

\* JumpForward 1: a jump into its own operand
RawJumpIntoOperand ==
    [New("table") EXCEPT !.scopes[1].Instructions =
        MakeInstruction("table", "JumpForward", <<1>>)]

\* JumpBackward 1 at position 0: a jump to below the buffer
RawJumpBelow ==
    [New("table") EXCEPT !.scopes[1].Instructions =
        MakeInstruction("table", "JumpBackward", <<1>>)]

\* the instructions of n arguments nil
Nils(n) == [i \in 1..n |-> MakeInstruction("table", "Nil", <<>>)[1]]

\* func f() { return 1 }; f(nil, ..., nil) with MaxArgs arguments: the scope
\* of the function as compiled, followed by the instructions of the call
RawManyArgs ==
    [Compile(New("table"), ProgOne) EXCEPT !.scopes[1].Instructions =
        @ \o MakeInstruction("table", "LoadGlobal", <<0>>)
          \o Nils(MaxArgs)
          \o MakeInstruction("table", "Call", <<MaxArgs>>)]

RawScopes == <<RawReturn, RawJumpIntoOperand, RawJumpBelow, RawManyArgs>>

\* for { if s >= 1 { break }; s = s + 1 }
ReplLoop ==
    AProgram(<<AFor(ABlock(<<AIf(AInfix(AIdent("s"), ">=", AInt(1)),
                                 ABlock(<<ABreak>>)),
                             AAssign("s", "=",
                                     AInfix(AIdent("s"), "+", AInt(1)))>>))>>)

\* if s < 1 { s = 0 } else { s = 1 }
ReplIfElse ==
    AProgram(<<AIfElse(AInfix(AIdent("s"), "<", AInt(1)),
                       ABlock(<<AAssign("s", "=", AInt(0))>>),
                       ABlock(<<AAssign("s", "=", AInt(1))>>))>>)

\* for { if s < 1 { continue }; break }; s
ReplLoopContinue ==
    AProgram(<<AFor(ABlock(<<AIf(AInfix(AIdent("s"), "<", AInt(1)),
                                 ABlock(<<AContinue>>)),
                             ABreak>>)),
               AIdent("s")>>)

\* 7
ProgSeven == AProgram(<<AInt(7)>>)

\* a main scope that holds as many constants as a uint16 can index; what the
\* constants are does not matter, and each is written 0
FullScope ==
    [New("emit") EXCEPT
        !.scopes[1].Constants = [i \in 1..MaxConstants |-> 0]]

\* a main scope that holds as many instruction words as a uint16 can index;
\* what the words are does not matter, and each is written 0
LongScope ==
    [New("emit") EXCEPT
        !.scopes[1].Instructions = [i \in 1..MaxConstants |-> 0]]

\* 1; func f() { return x }       with x undefined
ReplFailInFunc ==
    AProgram(<<AInt(1), AFunc("f", <<>>, <<AReturn(AIdent("x"))>>)>>)

\* the sessions: the scope the compiler is made over, given by the program a
\* first compiler has compiled into it, and the programs of the Compile calls
ReplSessions ==
    <<[base |-> "var s = 0", programs |-> <<ReplLoop, ReplLoopContinue>>],
      [base |-> "var s = 0", programs |-> <<ReplIfElse, ReplLoop>>],
      [base |-> "constants", programs |-> <<ProgSeven>>],
      [base |-> "instructions", programs |-> <<ProgIfTrue>>],
      [base |-> "var s = 0", programs |-> <<ReplFailInFunc>>]>>

ReplBase(i) ==
    IF ReplSessions[i].base = "constants" THEN FullScope
    ELSE IF ReplSessions[i].base = "instructions" THEN LongScope
    ELSE Compile(New("emit"), AProgram(<<AVar("s", AInt(0))>>))

Inputs ==
    {[origin |-> o, id |-> i] : o \in {"emit", "table"}, i \in 1..Len(Programs)}
    \cup {[origin |-> "raw", id |-> i] : i \in 1..Len(RawScopes)}
    \cup {[origin |-> "repl", id |-> i] : i \in 1..Len(ReplSessions)}

-----------------------------------------------------------------------------
(* The specification *)

NoCompiler == [current |-> 0, startPos |-> 0, calls |-> 0]

\* startPos of a compiler made over a scope with instructions up to position 0
StartPosZero(main) == 0

\* startPos: len(main.Instructions) when the compiler is made
StartPos(main) == Len(main.Instructions)

\* the Compiler after a Compile call that ended in the compiler state c
AfterCompile(c, startPos, calls) ==
    [current |-> c.current, startPos |-> startPos, calls |-> calls]

NoInstruction ==
    [op |-> "", pos |-> 0, scope |-> 0, operands |-> <<>>, framesIndex |-> 0]

Init ==
    /\ input \in Inputs
    /\ status = "init"
    /\ scopes = <<>>
    /\ symbolTables = <<>>
    /\ ip = 0
    /\ stack = <<>>
    /\ frames = <<>>
    /\ framesIndex = 0
    /\ currentScope = 1
    /\ globals = <<>>
    /\ heap = <<>>
    /\ last = NoInstruction
    /\ compiler = NoCompiler

\* vm.New(main) and the prologue of VM.Run: the globals, the base frame
NewVM(c) ==
    /\ status' = "running"
    /\ scopes' = c.scopes
    /\ symbolTables' = c.tables
    /\ globals' = [i \in 1..Len(SymbolMap(c.tables, c.scopes[1].Symbols))
                       |-> GoNil]
    /\ heap' = <<[i \in 1..Size(c.tables, c.scopes[1].Symbols) |-> GoNil]>>
    /\ frames' = <<FrameInit(0, 1, 1)>>
    /\ UNCHANGED <<input, ip, stack, framesIndex, currentScope, last>>

\* the compilation failed: Run returns the error and no VM is made
CompileFails(c) ==
    /\ status' = c.err
    /\ scopes' = c.scopes
    /\ symbolTables' = c.tables
    /\ UNCHANGED <<input, ip, stack, frames, framesIndex, currentScope,
                   globals, heap, last>>

Compiled(c) == IF c.err # "" THEN CompileFails(c) ELSE NewVM(c)

\* Run(code): compile the program and, if that succeeds, run the VM on it
CompiledBy(c) ==
    /\ Compiled(c)
    /\ compiler' = AfterCompile(c, 0, 1)

Run ==
    /\ status = "init"
    /\ input.origin \in {"emit", "table"}
    /\ CompiledBy(Compile(New(input.origin), Programs[input.id]))

\* vm.New(main).Run() on a scope the caller built
RunScope ==
    /\ status = "init"
    /\ input.origin = "raw"
    /\ NewVM(RawScopes[input.id])
    /\ UNCHANGED compiler

\* Compiler.NewInstructions
NewInstructions ==
    IF compiler.startPos > Len(scopes[1].Instructions) THEN <<>>
    ELSE SubSeq(scopes[1].Instructions, compiler.startPos + 1,
                Len(scopes[1].Instructions))

\* compiler.New(Options{Scope: main}) over a scope that exists
ReplNew ==
    /\ status = "init"
    /\ input.origin = "repl"
    /\ status' = "repl"
    /\ scopes' = ReplBase(input.id).scopes
    /\ symbolTables' = ReplBase(input.id).tables
    /\ compiler' = [current |-> 1,
                    startPos |-> StartPos(ReplBase(input.id).scopes[1]),
                    calls |-> 0]
    /\ UNCHANGED <<input, ip, stack, frames, framesIndex, currentScope,
                   globals, heap, last>>

\* the Compile call has ended in the compiler state c
ReplCompiled(c) ==
    /\ scopes' = c.scopes
    /\ symbolTables' = c.tables
    /\ compiler' = AfterCompile(c, compiler.startPos, compiler.calls + 1)
    /\ status' = IF c.err # "" THEN c.err
                 ELSE IF compiler.calls + 1 = Len(ReplSessions[input.id].programs)
                 THEN "compiled"
                 ELSE "repl"

\* the next Compile call on the compiler
ReplCompile ==
    /\ status = "repl"
    /\ ReplCompiled(Compile(
           [scopes |-> scopes, tables |-> symbolTables,
            current |-> compiler.current, err |-> "", layout |-> "emit"],
           ReplSessions[input.id].programs[compiler.calls + 1]))
    /\ UNCHANGED <<input, ip, stack, frames, framesIndex, currentScope,
                   globals, heap, last>>

Next ==
    \/ Run
    \/ RunScope
    \/ ReplNew
    \/ ReplCompile
    \/ DoNop
    \/ DoLoadConst
    \/ DoLoadFast
    \/ DoLoadGlobal
    \/ DoLoadFree
    \/ DoStoreFast
    \/ DoStoreGlobal
    \/ DoStoreFree
    \/ DoLoadClosure
    \/ DoMakeCell
    \/ DoNil
    \/ DoTrue
    \/ DoFalse
    \/ DoCompareOp
    \/ DoBinaryOp
    \/ DoCall
    \/ DoReturnValue
    \/ DoPopJumpForwardIfFalse
    \/ DoJumpForward
    \/ DoJumpBackward
    \/ DoUnknownOpcode
    \/ FetchOperandAsOpcode
    \/ RunReturns

Spec == Init /\ [][Next]_vars

-----------------------------------------------------------------------------
(* Properties *)

FromCompiler == input.origin \in {"emit", "table"}
Terminated == status \notin {"init", "running"}
Runs(prog, layout) == input = [origin |-> layout, id |-> ProgramId(prog)]
\* the locals of the frame that is executing
CurrentLocals == heap[currentFrame.locals]

\* C1: in a program compiled by the compiler as it is written, every opcode
\* fetch of the dispatch loop reads a word that was emitted as an opcode and
\* every operand fetch reads words that were emitted as operands of that
\* instruction: the layout is never lost and no operand fetch fails.
EncoderDecoderAgreement ==
    input.origin = "emit" =>
        /\ status # "desync"
        /\ \A i \in 1..Len(last.operands) : last.operands[i].r = "ok"

\* C2: the frame index stays within 0 .. MaxFrameDepth-1 and the frames in use
\* are frames[0 .. framesIndex]; a Call of a compiled function at
\* framesIndex+1 >= MaxFrameDepth pushes no frame and ends Run with 'frame
\* overflow'; the run of an unboundedly self-recursive named function that
\* stops at a Call stops with that error at the last frame of the array.
FrameBound ==
    /\ framesIndex >= 0
    /\ framesIndex <= MaxFrameDepth - 1
    /\ status = "running" => Len(frames) = framesIndex + 1
    /\ Len(frames) <= MaxFrameDepth
    /\ (/\ last.op = "Call"
        /\ last.framesIndex + 1 >= MaxFrameDepth
        /\ status \notin {"desync", "panic", "not a function"})
       => (/\ status = "frame overflow"
           /\ framesIndex = last.framesIndex
           /\ Len(frames) = framesIndex + 1)
    /\ (/\ input.id = ProgramId(ProgRecurse)
        /\ FromCompiler
        /\ last.op = "Call"
        /\ Terminated)
       => (status = "frame overflow" /\ framesIndex = MaxFrameDepth - 1)

\* the self-recursive function has filled the frame array and Run has
\* returned 'frame overflow'
FrameBoundWitness ==
    /\ Runs(ProgRecurse, "table")
    /\ status = "frame overflow"
    /\ last.op = "Call"
    /\ framesIndex = MaxFrameDepth - 1

\* C3: in a program the compiler accepts no ReturnValue instruction executes
\* at framesIndex = 0, and a return statement at module scope is rejected by
\* the compiler; a ReturnValue that does execute at framesIndex = 0 makes Run
\* return 'frame underflow' with framesIndex still 0.
ReturnOnlyInFunctions ==
    /\ (FromCompiler /\ last.op = "ReturnValue") => last.framesIndex >= 1
    /\ (FromCompiler /\ input.id = ProgramId(ProgReturnAtTop))
       => status \in {"init", "return outside of function"}
    /\ (last.op = "ReturnValue" /\ last.framesIndex = 0)
       => (status = "frame underflow" /\ framesIndex = 0)

\* a ReturnValue in the main scope of a scope built by hand has executed
ReturnOnlyInFunctionsWitness ==
    /\ input.origin = "raw"
    /\ last.op = "ReturnValue"
    /\ last.framesIndex = 0
    /\ status = "frame underflow"

\* C4: a ReturnValue that executes in the frame pushed by a Call takes away
\* exactly that frame, continues in the caller right after the Call
\* instruction (its opcode and its argc operand), in the scope of the caller's
\* frame, which is the main scope when that is frame 0, and leaves the operand
\* stack, with the return value on top, as it is.
CallReturnProtocol ==
    [][(Dispatch("ReturnValue") /\ framesIndex >= 1) =>
          /\ framesIndex' = framesIndex - 1
          /\ frames' = SubSeq(frames, 1, framesIndex)
          /\ scopes[currentFrame.callScope].Instructions[currentFrame.callPos + 1]
                 = OpWord("Call")
          /\ ip' = currentFrame.callPos + 2
          /\ currentScope' = currentFrame.callScope
          /\ currentScope' = frames[framesIndex].scope
          /\ framesIndex' = 0 => currentScope' = 1
          /\ stack' = stack
          /\ Top(stack') = Top(stack)
          /\ status' = "running"]_vars

\* a function has returned to a caller that is itself a function
CallReturnProtocolWitness ==
    /\ last.op = "ReturnValue"
    /\ last.framesIndex >= 2
    /\ framesIndex = last.framesIndex - 1
    /\ currentScope # 1
    /\ Top(stack).t = "int"

\* C5: a Call that enters a compiled function has popped argc arguments and
\* then the callee; local i of the new frame is the i-th argument in the order
\* of the source, which is the order they were pushed in; ip is 0 and the
\* current scope is the scope of the callee.
ArgumentBinding ==
    /\ [][(Dispatch("Call") /\ framesIndex' = framesIndex + 1) =>
            LET argc == fetch(ip + 1).v
                callee == stack[Len(stack) - argc]
                locals == heap'[frames'[framesIndex' + 1].locals]
            IN  /\ Len(stack) >= argc + 1
                /\ stack' = SubSeq(stack, 1, Len(stack) - argc - 1)
                /\ callee.t = "fn"
                /\ frames'[framesIndex' + 1].fn = callee
                /\ Len(locals) >= argc
                /\ \A i \in 0..argc - 1 :
                       locals[i + 1] = stack[Len(stack) - argc + 1 + i]
                /\ ip' = 0
                /\ currentScope' = callee.n]_vars
    /\ [](/\ Runs(ProgAdd, "table")
          /\ last.op = "Call"
          /\ framesIndex = 1
          => /\ CurrentLocals[1] = NewInt(40)
             /\ CurrentLocals[2] = NewInt(2))

\* add(40, 2) has been entered: a is 40 and b is 2
ArgumentBindingWitness ==
    /\ Runs(ProgAdd, "table")
    /\ last.op = "Call"
    /\ framesIndex = 1
    /\ ip = 0
    /\ CurrentLocals[1] = NewInt(40)
    /\ CurrentLocals[2] = NewInt(2)

\* the index the compiler gave the own name of the named function of a scope
OwnNameIndex(scope) ==
    LET names == SymbolMap(symbolTables, scopes[scope].Symbols)
    IN  names[Find(names, scopes[scope].Name)].Index

\* C6: a Call that enters a named compiled function leaves the callee in the
\* local slot the compiler assigned to the function's own name, the slot after
\* the parameters, whatever the number of arguments of the call; a body that
\* returns its own name returns the function.
OwnNameSlot ==
    /\ (/\ last.op = "Call"
        /\ framesIndex = last.framesIndex + 1
        /\ scopes[currentScope].IsNamed)
       => (/\ OwnNameIndex(currentScope) < Len(CurrentLocals)
           /\ CurrentLocals[OwnNameIndex(currentScope) + 1] = currentFrame.fn)
    /\ (Runs(ProgFewArgs, "table") /\ status = "done")
       => Top(stack).t = "fn"

\* C7: the run of mk() followed by k calls of the closure it returned ends
\* with the results of the calls on the operand stack, the j-th call having
\* returned j.
ClosureCounter ==
    \A k \in 1..MaxCalls :
        (FromCompiler /\ input.id = CounterProgram(k) /\ Terminated)
        => (/\ status = "done"
            /\ stack = [j \in 1..k |-> NewInt(j)])

RECURSIVE Factorial(_)
Factorial(n) == IF n <= 1 THEN 1 ELSE n * Factorial(n - 1)

\* C8: the run of fact(n) ends with n! as the one value on the operand stack,
\* for every n up to MaxFact.
Recursion ==
    \A n \in 0..MaxFact :
        (FromCompiler /\ input.id = FactProgram(n) /\ Terminated)
        => (/\ status = "done"
            /\ stack = <<NewInt(Factorial(n))>>)

\* the number of instruction words of MakeCell in the layout of the input
MakeCellLen == Len(MakeInstruction(input.origin, "MakeCell", <<0, 0>>))

\* C9: in a compiled program, when LoadClosure is about to execute the top
\* free_count entries of the operand stack are cells, the free_count
\* instructions before it are MakeCell instructions and free_count is the
\* number of free symbols the compiler recorded for the function; the closure
\* it pushes has free_count free variables; 'expected cell' is never returned.
ClosureConstruction ==
    FromCompiler =>
        /\ status # "expected cell"
        /\ (/\ Dispatch("LoadClosure")
            /\ fetch2(ip + 1).r = "ok"
            /\ fetch2(ip + 3).r = "ok")
           => LET freeCount == fetch2(ip + 3).v
                  fn == Constants[fetch2(ip + 1).v + 1]
              IN  /\ Len(stack) >= freeCount
                  /\ \A i \in 1..freeCount :
                        /\ Popped(stack, i).t = "cell"
                        /\ ip - i * MakeCellLen >= 0
                        /\ Word(ip - i * MakeCellLen) = OpWord("MakeCell")
                  /\ fn.t = "fn"
                  /\ freeCount = Len(Free(symbolTables, scopes[fn.n].Symbols))
        /\ (last.op = "LoadClosure" /\ last.operands[1].r = "ok"
                                    /\ last.operands[2].r = "ok")
           => (/\ status = "running"
               /\ Top(stack).t = "fn"
               /\ Len(Top(stack).xs) = last.operands[2].v
               /\ \A i \in 1..Len(Top(stack).xs) : Top(stack).xs[i].t = "cell")

\* mk has made the closure inc over the cell of n
ClosureConstructionWitness ==
    /\ FromCompiler
    /\ last.op = "LoadClosure"
    /\ last.operands[2].v = 1
    /\ status = "running"
    /\ Top(stack).t = "fn"
    /\ Len(Top(stack).xs) = 1
    /\ Top(stack).xs[1].t = "cell"

\* C10: when LoadFast or StoreFast is about to execute, its index is less than
\* the number of locals of the current frame, and neither of them ends in an
\* index out of range.
LocalIndexBound ==
    /\ (Dispatch("LoadFast") /\ fetch2(ip + 1).r = "ok")
       => fetch2(ip + 1).v < Len(CurrentLocals)
    /\ (Dispatch("StoreFast") /\ fetch(ip + 1).r = "ok")
       => fetch(ip + 1).v < Len(CurrentLocals)
    /\ (FromCompiler /\ last.op \in {"LoadFast", "StoreFast"})
       => status # "panic"

\* g(1) for func g(a, b) has loaded local 2, past the one argument of the call
LocalIndexBoundWitness ==
    /\ Runs(ProgFewArgs, "table")
    /\ last.op = "LoadFast"
    /\ last.operands[1].v = 2
    /\ status = "running"
    /\ Len(CurrentLocals) = 3

Range(f) == {f[i] : i \in DOMAIN f}

\* the loops that were compiled in the scope of the instruction executed last
LoopsOfLast == Range(scopes[last.scope].LoopLog)

\* C11: with the operands laid out as the VM decodes them, the JumpForward of
\* a break moves execution to the Nop after the closing JumpBackward of its
\* loop, and the JumpBackward of a continue and the closing JumpBackward move
\* it to the first instruction of the body of that loop in the same scope, in
\* the main scope and in a function body alike.
LoopControlTargets ==
    (input.origin = "table" /\ last.op \in {"JumpForward", "JumpBackward"})
    => \A L \in LoopsOfLast :
        /\ (last.op = "JumpForward" /\ last.pos \in Range(L.breaks))
           => (status = "running" /\ ip = L.nop)
        /\ (last.op = "JumpBackward"
            /\ (last.pos = L.back \/ last.pos \in Range(L.continues)))
           => (status = "running" /\ ip = L.body)

\* the operand that a jump site holds, read in the layout of the stream
SiteDelta(s, pos) ==
    LET ins == scopes[s].Instructions
    IN  IF input.origin = "table" THEN ins[pos + 2].n + 256 * ins[pos + 3].n
        ELSE ins[pos + 2].n

\* the position a jump site transfers to
SiteTarget(s, pos) ==
    IF scopes[s].Instructions[pos + 1].o = "JumpBackward"
    THEN pos - SiteDelta(s, pos)
    ELSE pos + SiteDelta(s, pos)

\* t is the position of an opcode of the buffer of scope s, or its end
OpcodePosition(s, t) ==
    /\ t >= 0
    /\ t <= Len(scopes[s].Instructions)
    /\ t < Len(scopes[s].Instructions) => scopes[s].Instructions[t + 1].k = "op"

\* the jump sites of scope s that changeOperand has written
PatchedSites(s) == Range(scopes[s].Patched)

\* C12: after a compilation that succeeded, every backpatched jump site holds a
\* delta that is not the placeholder, and its target is inside the buffer of
\* its scope, or at its end, on the position of an opcode.
BackpatchedJumps ==
    (FromCompiler /\ frames # <<>>)
    => \A s \in 1..Len(scopes) : \A pos \in PatchedSites(s) :
        /\ SiteDelta(s, pos) # Placeholder
        /\ OpcodePosition(s, SiteTarget(s, pos))

\* C13: when Compile has returned, with or without an error, no scope has a
\* loop left open on its Loops stack and the symbol-table pointer of every
\* scope is the table of its function again and not the table of a block:
\* every Block and every simple for has left both as they were on its entry.
ScopeBalance ==
    (FromCompiler /\ status # "init")
    => \A s \in 1..Len(scopes) :
        /\ scopes[s].Loops = <<>>
        /\ symbolTables[scopes[s].Symbols].kind # "block"

\* C14: a loop does not grow the operand stack from one iteration to the
\* next. Every loop of the programs of this model is entered with an empty
\* operand stack, so when its closing JumpBackward or one of its continue
\* jumps has brought execution back to the head of the loop, the operand stack
\* is empty again, also when the body holds an expression statement.
LoopStackDepth ==
    (input.origin = "table" /\ last.op = "JumpBackward" /\ status = "running")
    => \A L \in LoopsOfLast :
        (last.pos = L.back \/ last.pos \in Range(L.continues))
        => Len(stack) = 0

\* no break or continue jump is recorded on a loop that is still open
NoJumpRecorded ==
    \A s \in 1..Len(scopes) : \A L \in Range(scopes[s].Loops) :
        L.BreakPos = <<>> /\ L.ContinuePos = <<>>

\* C15: Compile returns 'return outside of function' for a return in the main
\* scope, and 'break outside of loop' or 'continue outside of loop' for a
\* break or continue with no loop open in the scope being compiled, also in a
\* function body that is defined inside a loop of the enclosing scope; no
\* jump of that break or continue is recorded on a loop.
ControlMisuse ==
    (FromCompiler /\ status # "init")
    => /\ Programs[input.id] = ProgReturnAtTop
          => status = "return outside of function"
       /\ Programs[input.id] \in {ProgBreakAtTop, ProgBreakInLoopFunc}
          => (status = "break outside of loop" /\ NoJumpRecorded)
       /\ Programs[input.id] = ProgContinueAfterLoop
          => (status = "continue outside of loop" /\ NoJumpRecorded)

\* the programs whose only statement that emits anything uses the name x,
\* which no scope declares
UndefinedPrograms ==
    {ProgUndefinedRead, ProgUndefinedAssign, ProgUndefinedCompound,
     ProgUndefinedPostfix, ProgUndefinedInBlockFunc, ProgUndefinedInLoopFunc}

\* C16: for an identifier read, an assignment target or a postfix target that
\* lookup does not find, Compile returns the 'undefined variable' error, and
\* no instruction is emitted for it: the buffers stay empty.
UndefinedVariable ==
    (FromCompiler /\ status # "init" /\ Programs[input.id] \in UndefinedPrograms)
    => /\ status = "undefined variable"
       /\ \A s \in 1..Len(scopes) : scopes[s].Instructions = <<>>

\* C17: when BinaryOp executes Divide or Modulo on two Ints of which the
\* divisor is 0, Run ends with an error: it does not continue and the host
\* does not panic.
DivisionByZero ==
    [][(/\ Dispatch("BinaryOp")
        /\ fetch(ip + 1).r = "ok"
        /\ KindName(BinaryOps, fetch(ip + 1).v) \in {"Divide", "Modulo"}
        /\ Popped(stack, 1) = NewInt(0)
        /\ Popped(stack, 2).t = "int")
       => status' \notin {"running", "panic"}]_vars

\* C18: a Call whose callee is not a function ends Run with 'not a function',
\* pushes no frame and leaves the frame index as it was; a callee that is a
\* closure is accepted like a plain compiled function and gets a new frame.
NotAFunction ==
    [][(Dispatch("Call") /\ fetch(ip + 1).r = "ok")
       => LET obj == Popped(stack, fetch(ip + 1).v + 1)
          IN  /\ obj.t # "fn"
                 => /\ status' = "not a function"
                    /\ framesIndex' = framesIndex
                    /\ frames' = frames
              /\ (obj.t = "fn" /\ obj.xs # <<>> /\ ~FrameOverflow)
                 => /\ status' = "running"
                    /\ framesIndex' = framesIndex + 1
                    /\ frames'[framesIndex' + 1].fn = obj]_vars

\* nil(true), compiled as written, has ended in the error with no frame pushed
NotAFunctionWitness ==
    /\ Runs(ProgNotCallable, "emit")
    /\ last.op = "Call"
    /\ status = "not a function"
    /\ framesIndex = 0
    /\ Len(frames) = 1

\* the comparisons that order their operands
OrderingOps ==
    {"LessThan", "LessThanOrEqual", "GreaterThan", "GreaterThanOrEqual"}

\* C19: when BinaryOp, or CompareOp with an ordering comparison, executes
\* with an operand that is not an Int, Run ends with an error: no value is
\* pushed, execution does not continue and the host does not panic.
TypeMismatch ==
    [][(/\ \/ /\ Dispatch("BinaryOp")
              /\ fetch(ip + 1).r = "ok"
              /\ KindName(BinaryOps, fetch(ip + 1).v) # "unknown"
           \/ /\ Dispatch("CompareOp")
              /\ fetch(ip + 1).r = "ok"
              /\ KindName(CompareOps, fetch(ip + 1).v) \in OrderingOps
        /\ (Popped(stack, 1).t # "int" \/ Popped(stack, 2).t # "int"))
       => status' \notin {"running", "panic"}]_vars

\* C20: the VM executes every opcode that the compiler emits: the run of a
\* compiled program never ends with 'unknown opcode', also when the program
\* names a builtin, which compiles to LoadBuiltin.
NoUnknownOpcode == FromCompiler => status # "unknown opcode"

\* the bounds N of the counting loops that are run
LoopBounds == {0, 2, 5}

\* C21: Run of var s = 0; for { if s >= N { break }; s = s + 1 }; s, compiled
\* by the compiler as it is written, ends without an error and with Int(N) on
\* top of the operand stack.
CountingLoop ==
    \A n \in LoopBounds :
        (Runs(ProgLoop(n), "emit") /\ Terminated)
        => (status = "done" /\ Top(stack) = NewInt(n))

\* the operand of the LoadConst at position pos of the main scope, compiled as
\* written
ConstOperand(pos) == scopes[1].Instructions[pos + 2].n

\* C22: the index that constant(v) returns is the index of v in the constants
\* of the scope: after the Compile of 7 into a scope that held MaxConstants
\* constants, either the compilation has failed with an error, or the
\* LoadConst it emitted names the constant that was added last, Int(7), and
\* no earlier one.
ConstantIndex ==
    (input.origin = "repl" /\ ReplSessions[input.id].base = "constants"
     /\ compiler.calls = 1)
    => \/ status \notin {"repl", "compiled"}
       \/ /\ ConstOperand(0) + 1 = Len(scopes[1].Constants)
          /\ scopes[1].Constants[Len(scopes[1].Constants)] = NewInt(7)

\* the instructions of the scope the compiler of a session was made over
BaseInstructions == ReplBase(input.id).scopes[1].Instructions

\* C23: for a compiler made over a scope that held n instruction words, after
\* every successful Compile call NewInstructions is Instructions()[n:], no
\* backpatch has written below position n, and the first n words of the main
\* scope are the ones it held.
ReplReuse ==
    (input.origin = "repl" /\ status \in {"repl", "compiled"})
    => /\ Len(scopes[1].Instructions) >= Len(BaseInstructions)
       /\ NewInstructions
          = SubSeq(scopes[1].Instructions, Len(BaseInstructions) + 1,
                   Len(scopes[1].Instructions))
       /\ \A pos \in PatchedSites(1) : pos >= Len(BaseInstructions)
       /\ SubSeq(scopes[1].Instructions, 1, Len(BaseInstructions))
          = BaseInstructions

\* C24: when LoadGlobal or StoreGlobal is about to execute in a compiled
\* program, its index is less than the length of the globals array that
\* vm.New has made, also for a variable declared in a block of the main scope.
GlobalsBound ==
    /\ (FromCompiler /\ Dispatch("LoadGlobal") /\ fetch2(ip + 1).r = "ok")
       => fetch2(ip + 1).v < Len(globals)
    /\ (FromCompiler /\ Dispatch("StoreGlobal") /\ fetch2(ip + 1).r = "ok")
       => fetch2(ip + 1).v < Len(globals)

\* the MakeCell instructions of a scope, as the compiler has emitted them
CellsAt(scope, pos) ==
    {e \in Range(scopes[scope].CellLog) : e.pos = pos}

\* the live frames whose locals vector a cell refers to
FramesOfCell(cell) ==
    {k \in 1..framesIndex + 1 : frames[k].locals = cell.n}

\* C25: every MakeCell that has been executed with decoded operands has made a
\* cell over the locals of a live activation of the function that lexically
\* declares the captured variable, whatever frame the function constructing
\* the closure was called from
DeclaringFrameCapture ==
    (/\ input.origin = "table"
     /\ last.op = "MakeCell"
     /\ last.scope \in 1..Len(scopes))
    => \A e \in CellsAt(last.scope, last.pos) :
           /\ status = "running"
           /\ Top(stack).t = "cell"
           /\ \E k \in FramesOfCell(Top(stack)) : frames[k].scope = e.decl

\* the free list of the function of the current frame, in the order of the
\* indices the compiler has given to its LoadFree and StoreFree
FreeList == Free(symbolTables, scopes[currentFrame.scope].Symbols)

\* C26: a LoadFree(i) or StoreFree(i) about to be executed in a closure reads
\* or writes the cell that was made from the outer slot of the identifier it
\* was emitted for, the i-th entry of the free list of the function: the order
\* in which LoadClosure has filled the free variables agrees with the indices
\* of the compiler, also for a closure that captures two or more variables.
FreeIndexConsistency ==
    (/\ input.origin = "table"
     /\ Dispatch("LoadFree") \/ Dispatch("StoreFree")
     /\ currentFrame.fn.t = "fn"
     /\ fetch2(ip + 1).r = "ok"
     /\ fetch2(ip + 1).v < Len(currentFrame.fn.xs))
    => /\ fetch2(ip + 1).v < Len(FreeList)
       /\ currentFrame.fn.xs[fetch2(ip + 1).v + 1].xs[1]
              = FreeList[fetch2(ip + 1).v + 1].Index

\* the ifs of the current scope whose conditional jump, or whose jump over the
\* alternative, stands at the instruction pointer
IfsAt == {e \in Range(scopes[currentScope].IfLog) : e.ifPos = ip}
SkipsAt == {e \in Range(scopes[currentScope].IfLog) : e.skipPos = ip}

\* C27: the conditional jump of a compiled if pops the condition once and
\* continues at the first instruction of the consequence when the condition is
\* truthy and at the first instruction of the alternative (after the
\* consequence when there is none) when it is falsy; the jump that ends the
\* consequence continues at the first instruction after the alternative and
\* leaves the stack alone.
IfElseControl ==
    [][/\ (FromCompiler /\ Dispatch("PopJumpForwardIfFalse")
           /\ Top(stack).t # "<nil>")
          => \A e \in IfsAt :
                 /\ status' = "running"
                 /\ stack' = Pop(stack)
                 /\ ip' = IF IsTruthy(Top(stack)) THEN e.thenPos ELSE e.elsePos
       /\ (FromCompiler /\ Dispatch("JumpForward"))
          => \A e \in SkipsAt :
                 /\ status' = "running"
                 /\ stack' = stack
                 /\ ip' = e.endPos]_vars

\* the number of entries of the argument buffer that a Call with argc
\* arguments of the function obj writes
ArgsWritten(obj, argc) == IF scopes[obj.n].IsNamed THEN argc + 1 ELSE argc

\* C28: a Call about to be executed on a compiled function decodes the
\* argument count that the compiler has emitted, and with a count of 0..MaxArgs
\* it writes no entry outside the argument buffer of MaxArgs entries, whether
\* the function is named or anonymous.
ArgumentBuffer ==
    (/\ input.origin \in {"table", "raw"}
     /\ Dispatch("Call")
     /\ fetch(ip + 1).r = "ok"
     /\ Callable(Popped(stack, fetch(ip + 1).v + 1)))
    => /\ fetch(ip + 1).v = Word(ip + 1).n
       /\ fetch(ip + 1).v \in 0..MaxArgs
       /\ ArgsWritten(Popped(stack, fetch(ip + 1).v + 1), fetch(ip + 1).v)
              <= MaxArgs

\* the calling frame of the current frame
CallerFrame == frames[framesIndex]

\* the local slots of the function of scope that a closure captures
Captured(scope) ==
    {e.index : e \in {x \in UNION {Range(scopes[k].CellLog) :
                                    k \in 1..Len(scopes)} : x.decl = scope}}

\* the Call leaves every locals vector that exists as it is
CallKeepsLocals ==
    Dispatch("Call") => \A id \in 1..Len(heap) : heap'[id] = heap[id]

CallStackEffect ==
    (/\ input.origin = "table"
     /\ Dispatch("ReturnValue")
     /\ framesIndex >= 1)
    => Len(stack) = currentFrame.base + 1

\* the errors that Compile returns
CompileErrors ==
    {"undefined variable", "redeclared", "return outside of function",
     "unknown operator", "invalid operation on builtin"}

\* the main scope as it is when Compile is called: of a new compiler in Run,
\* of the compiler of the session otherwise
MainBefore ==
    IF status = "init" THEN New(input.origin).scopes[1] ELSE scopes[1]

\* C31: when a Compile call returns an error, the current scope of the
\* compiler is the main scope again, and the instructions, the constants and
\* the children of the main scope are the ones it had before the call.
FailureLeavesNoTrace ==
    [][(/\ \/ status = "init" /\ FromCompiler
           \/ status = "repl"
        /\ status' \in CompileErrors)
       => /\ compiler'.current = 1
          /\ scopes'[1].Instructions = MainBefore.Instructions
          /\ scopes'[1].Constants = MainBefore.Constants
          /\ scopes'[1].Children = MainBefore.Children]_vars

====
